---- MODULE Spec2Model ----
(***************************************************************************)
(* era-watchdog: the metric recorder, the step timer, and the run loops of *)
(* the transfer, deposit and deposit-user flows (Spec); the recorder on    *)
(* its own (RecorderSpec); deposit and withdrawal reconciliation           *)
(* (ReconSpec); the withdrawal-finalize flow (FinalizeSpec); the request   *)
(* builders of the L2 flows (RequestSpec); the wallet mutex (MutexSpec,    *)
(* MutexLiveSpec); the flows that share one signing key (WalletSpec,       *)
(* WalletLiveSpec); the trigger and retry budget of the deposit-user flow  *)
(* (TriggerSpec); main() and the flows it starts (MainSpec); the deposit   *)
(* flow from process start to its first attempt (StartupSpec); the         *)
(* settlement flow (SettlementSpec).                                       *)
(*                                                                         *)
(* One flow instance runs per behaviour (Init draws which one).  A flow    *)
(* suspends at every await; one action is one resumption: the handler that *)
(* runs from the event that wakes the flow up to its next await.  The      *)
(* specifications share the variables; each section says what `chain`,     *)
(* `cfg`, `call` and `result` hold in it.                                  *)
(***************************************************************************)
EXTENDS Integers, Sequences, FiniteSets, Bags, TLC

VARIABLES
  flow,        \* which flow's run() this instance executes
  cfg,         \* configuration read at start-up (retry limit, base token)
  pc,          \* where run() is suspended
  cycle,       \* cycles of run() begun so far
  i,           \* loop counter: `i` of the for loops, `attempt` of depositUser
  stage,       \* index of the step (or await) the attempt is suspended in
  result,      \* status returned by the latest attempt of this cycle, or "none"
  rec,         \* FlowMetricRecorder fields and the store's gauges of this flow
  now,         \* Date.now() in seconds
  call,        \* the withTimeout call the flow is awaiting
  abandoned,   \* bag of the works still running after their timer fired
  locked,      \* the L2 wallet mutex
  chain,       \* L1 chain time and the depositUser cycle's readings of it
  h            \* history (observation only): what the properties speak about

vars == <<flow, cfg, pc, cycle, i, stage, result, rec, now, call, abandoned, locked, chain, h>>

----------------------------------------------------------------------------
(* Bounds of the model *)

MaxNow == 2            \* the wall clock takes the values 1..MaxNow
MaxFinalizeNow == 3    \* the same clock where the withdrawal-finalize flow runs
MaxCycles == 2         \* cycles of run() a behaviour goes through
MaxDepositCycles == 1  \* cycles of the deposit flow's run(), whose attempt has four steps
MaxRetryLimit == 2     \* the retry limit is drawn from 0..MaxRetryLimit
MaxInvocations == 4    \* attempts remembered per cycle (the SKIP loop is unbounded)
MaxGas == 1            \* gas amounts reported by estimates and receipts, 1..MaxGas
MaxFee == 2            \* L1 fee estimates 0..MaxFee
MaxChainTime == 1      \* L1 block timestamps 0..MaxChainTime
StepTimeoutTicks == 1  \* stepTimeoutMs of every step, in clock ticks (seconds)
TriggerDelayTicks == 0 \* txTriggerDelayMs of the depositUser flow, in seconds
IntervalTicks == 1     \* intervalMs of the deposit flow, in seconds
MaxHead == 3           \* highest block number of the chain a reconciliation reads
MaxLogsBlocks == 2     \* largest MAX_LOGS_BLOCKS / MAX_LOGS_BLOCKS_L2
MaxEvents == 2         \* most matching events on the chain
MaxL2Lag == 1          \* most seconds from an L1 deposit to its L2 execution
MaxCallers == 3        \* callers of one mutex
MaxLockCalls == 4      \* acquire() calls a behaviour goes through
MaxWalletAttempts == 2 \* attempts each of the flows sharing a key begins
MaxL1Time == 3         \* L1 chain time 0..MaxL1Time where the trigger delay is drawn
MaxTriggerDelay == 1   \* txTriggerDelayMs is drawn from 0..MaxTriggerDelay seconds
MaxTriggerRetries == 2 \* DEPOSIT_RETRY_LIMIT is drawn from 0..MaxTriggerRetries there
MaxTriggerCycles == 2  \* cycles of run() there
MaxMainCycles == 1  \* cycles of each flow started by main()
MaxStartupInterval == 2  \* intervalMs of the deposit flow at start-up, in seconds
MaxStartupChain == 3     \* L1 block timestamps at start-up run over this many seconds
MaxStartupClock == 3  \* seconds of the clock from process start to the first attempt
MaxSettleTime == 2    \* block timestamps the settlement flow reads, in seconds
MaxDeadline == 1      \* settlementDeadlineSec
MaxSettleCycles == 2  \* cycles of the settlement flow

(* Program constants *)

Null == -1             \* null / unset, for the numeric fields
SEC == 1000
GasPriceLimit == 1     \* DEPOSIT_L1_GAS_PRICE_LIMIT_GWEI, in the unit of the fee estimates

OK == "OK"
FAIL == "FAIL"
SKIP == "SKIP"
Status == {OK, FAIL, SKIP}
StatusNoSkip == {OK, FAIL}

Flows == {"transfer", "deposit", "depositUser"}
StepNames == {"estimation", "send", "execution", "l1_execution", "l2_execution"}

Max(a, b) == IF a >= b THEN a ELSE b

----------------------------------------------------------------------------
(* FlowMetricRecorder and FlowMetricStore.  Gauge values are kept as the   *)
(* decimal strings prom-client exports; "unset" is a gauge never set.      *)
(* The status histogram is not part of the state.                          *)

NewRecorder ==
  [ startTime |-> Null,
    lastStepLatency |-> Null,
    lastExecutionTotalLatency |-> Null,
    status |-> "unset",
    latencyTotal |-> Null,
    latency |-> [s \in StepNames |-> Null],
    stepTimestamp |-> [s \in StepNames |-> Null],
    stepGas |-> [s \in StepNames |-> Null],
    stepGasPrice |-> [s \in StepNames |-> Null],
    stepGasCost |-> [s \in StepNames |-> Null] ]

\* Date.now(), in ms
DateNow(t) == t * SEC

\* `if (this.startTime)`: null and 0 are falsy
Truthy(v) == v # Null /\ v # 0

recordFlowStart(r, t) == [r EXCEPT !.startTime = DateNow(t)]

\* the part of stepExecution after the await: it runs when withTimeout fulfils
stepRecord(r, step, startMs, t) ==
  LET end == DateNow(t)
      latency == (end - startMs) \div SEC
  IN [r EXCEPT !.latency[step] = latency,
               !.lastStepLatency = latency,
               !.stepTimestamp[step] = end]

recordStepGas(r, step, gas) == [r EXCEPT !.stepGas[step] = gas]
recordStepGasPrice(r, step, price) == [r EXCEPT !.stepGasPrice[step] = price]
recordStepGasCost(r, step, cost) == [r EXCEPT !.stepGasCost[step] = cost]

recordFlowSuccessThrows(r) == ~Truthy(r.startTime)
recordFlowSuccess(r, t) ==
  IF Truthy(r.startTime)
  THEN LET latency == (DateNow(t) - r.startTime) \div SEC
       IN [r EXCEPT !.latencyTotal = latency,
                    !.status = "1",
                    !.lastExecutionTotalLatency = latency,
                    !.startTime = Null]
  ELSE r

recordFlowSkippedThrowsNever(r) == FALSE
recordFlowSkippedThrows(r) == ~Truthy(r.startTime)
recordFlowSkipped(r, t) ==
  IF Truthy(r.startTime)
  THEN [r EXCEPT !.status = "0.5", !.startTime = Null]
  ELSE r

recordFlowFailure(r) == [r EXCEPT !.status = "0", !.startTime = Null]

\* variant that publishes the manual total latency whatever the status
manualRecordStatusAnyStatus(r, status, latencyTotalSec) ==
  [r EXCEPT !.status = IF status = OK THEN "1" ELSE "0",
            !.latencyTotal = latencyTotalSec,
            !.lastExecutionTotalLatency = latencyTotalSec]

manualRecordStatus(r, status, latencyTotalSec) ==
  LET r1 == [r EXCEPT !.status = IF status = OK THEN "1" ELSE "0"]
  IN IF status = OK
     THEN [r1 EXCEPT !.latencyTotal = latencyTotalSec,
                     !.lastExecutionTotalLatency = latencyTotalSec]
     ELSE r1

manualRecordStepCompletion(r, step, latencySec, stepEndSec) ==
  [r EXCEPT !.latency[step] = latencySec,
            !.lastStepLatency = latencySec,
            !.stepTimestamp[step] = stepEndSec * 1000]

manualRecordStepGas(r, step, gas) == [r EXCEPT !.stepGas[step] = gas]
manualRecordStepGasPrice(r, step, price) == [r EXCEPT !.stepGasPrice[step] = price]
manualRecordStepGasCost(r, step, cost) == [r EXCEPT !.stepGasCost[step] = cost]

recordPreviousExecutionStatus(r, status) ==
  IF status = OK THEN [r EXCEPT !.status = "1"] ELSE r

----------------------------------------------------------------------------
(* withTimeout: the promise it returns, settled by whichever of the work   *)
(* and the timer comes first.                                              *)

Pending == [state |-> "pending", error |-> "", context |-> ""]
Fulfilled == [state |-> "fulfilled", error |-> "", context |-> ""]
RejectedByWork == [state |-> "rejected", error |-> "work", context |-> ""]
TimedOut(step) == [state |-> "rejected", error |-> "timed out", context |-> step]

\* resolve / reject of a promise: only a pending promise changes
SettleOverwrites(p, outcome) == outcome
Settle(p, outcome) == IF p.state = "pending" THEN outcome ELSE p

\* `const ret = await withTimeout(...)` in stepExecution: the statements after
\* the await run if the promise fulfilled; if it rejected, the await throws
ContinuesAlways(p) == TRUE
Continues(p) == p.state = "fulfilled"

StepTimeoutMs == StepTimeoutTicks * SEC

NoCall == [step |-> "", start |-> Null, promise |-> Pending, timer |-> FALSE]
\* stepExecution up to its await: start = Date.now(), fn(helpers) is started,
\* withTimeout arms the timer
NewCall(step, t) == [step |-> step, start |-> DateNow(t), promise |-> Pending, timer |-> TRUE]

----------------------------------------------------------------------------
(* History variable h: written by the actions, never read by them.         *)

NoSettle == [step |-> "", first |-> "none", second |-> "none", promise |-> Pending]
NewHistory ==
  [ results |-> <<>>,        \* statuses returned by the attempts of this cycle
    entered |-> FALSE,       \* run() reached the retry loop of this cycle
    fee |-> Null,            \* L1 fee estimate current when the attempt decided to submit
    issued |-> FALSE,        \* the attempt called the submitting wallet method
    lastOutcome |-> "none",  \* outcome handed to the latest status-recording operation
    settled |-> NoSettle,    \* the withTimeout call the latest work/timer event hit:
                             \* its step, the event that came first, the event that
                             \* came second (if any), the promise after the latest
    writes |-> [s \in StepNames |-> 0],   \* step records written for s since the latest attempt began
    over |-> [s \in StepNames |-> "no"],  \* how the stepExecution of s ended in the latest attempt
    op |-> "none",           \* operation of the program's own that was called last
    threw |-> FALSE,         \* it threw
    calls |-> 0 ]            \* parity of the number of recorder operations called

Remember(seq, x) == IF Len(seq) < MaxInvocations THEN Append(seq, x) ELSE seq

----------------------------------------------------------------------------
(* The steps of the attempt functions that run under stepExecution.        *)

Steps(f) ==
  IF f = "transfer" THEN <<"estimation", "send", "execution">>
  ELSE IF f = "deposit" THEN <<"estimation", "send", "l1_execution", "l2_execution">>
  ELSE <<>>

\* the hooks the work of a step calls before it returns
WorkHooks(r, f, step, gas, price) ==
  IF f = "transfer" /\ step \in {"estimation", "execution"}
  THEN recordStepGasCost(recordStepGas(recordStepGasPrice(r, step, price), step, gas), step, gas * price)
  ELSE IF f = "deposit" /\ step = "estimation"
  THEN recordStepGas(r, step, gas)
  ELSE IF f = "deposit" /\ step = "l1_execution"
  THEN recordStepGasCost(recordStepGasPrice(recordStepGas(r, step, gas), step, price), step, gas * price)
  ELSE IF f = "deposit" /\ step = "l2_execution"
  THEN recordStepGasCost(recordStepGas(r, step, gas), step, price)
  ELSE r

\* Gas amounts and gas prices are data the flows copy into gauges and never
\* branch on: amounts 1..MaxGas at one representative price.
\* what the work of a step has written when it throws: the hooks run in the
\* order of the source, each with an unwrap() of a field that may be null, so
\* a work that rejects may have run the hooks before the failing unwrap
PartialHooks(r, f, step, gas, price) ==
  IF f = "transfer" /\ step = "estimation"
  THEN {r, recordStepGasPrice(r, step, price)}
  ELSE IF f = "transfer" /\ step = "execution"
  THEN {r, recordStepGas(r, step, gas)}
  ELSE IF f = "deposit" /\ step \in {"l1_execution", "l2_execution"}
  THEN {r, recordStepGas(r, step, gas)}
  ELSE {r}

Gases == 1..MaxGas
Prices == {1}

\* the step whose work calls the wallet method that submits the transaction
Submits(f, step) == step = "send"

\* The L1 fee estimate current when step starts, where a deposit is about to
\* be submitted.  executeWatchdogDeposit never reads it: an estimate at the
\* ceiling and one above it are the two cases.
Fees(f, step) ==
  IF f = "deposit" /\ Submits(f, step) THEN {GasPriceLimit, GasPriceLimit + 1} ELSE {Null}

----------------------------------------------------------------------------
(* Loop control of the run() methods.                                      *)

\* `i < TRANSFER_RETRY_LIMIT`, `i < DEPOSIT_RETRY_LIMIT`, `attempt < DEPOSIT_RETRY_LIMIT`
LoopContinuesOffByOne(k, limit) == k <= limit
LoopContinues(k, limit) == k < limit

\* transfer.ts: `if (result === StatusNoSkip.OK) break`
TransferBreaks(res) == res = OK

\* deposit.ts: `if (result === "FAIL") await retry; else break`
DepositBreaks(res) == res # FAIL

\* depositUsers.ts: `if (result === Status.OK) break` after the switch
DepositUserBreaks(res) == res = OK

\* depositUsers.ts: only `case Status.FAIL` does attempt++ and waits
DepositUserCountsSkip(res) == res # OK
DepositUserCounts(res) == res = FAIL

\* the break test of the run() of flow f
BreaksNever(f, res) == FALSE
Breaks(f, res) ==
  IF f = "transfer" THEN TransferBreaks(res)
  ELSE IF f = "deposit" THEN DepositBreaks(res)
  ELSE DepositUserBreaks(res)

----------------------------------------------------------------------------
Init ==
  /\ flow \in Flows
  /\ cfg \in [retryLimit : 0..MaxRetryLimit, baseTokenIsEth : BOOLEAN]
  /\ (flow # "deposit" => cfg.baseTokenIsEth)
  /\ pc = "start"
  /\ cycle = 0
  /\ i = 0
  /\ stage = 0
  /\ result = "none"
  /\ rec = NewRecorder
  /\ now = 1
  /\ call = NoCall
  /\ abandoned = EmptyBag
  /\ locked = FALSE
  /\ chain = [time |-> 0, cycleTs |-> Null, lastOnChain |-> 0, last |-> Null, sinceLastDeposit |-> Null]
  /\ h = NewHistory

\* time passes
Tick ==
  /\ now < MaxNow
  /\ now' = now + 1
  /\ UNCHANGED <<flow, cfg, cycle, pc, i, stage, result, rec, call, abandoned, locked, chain, h>>

----------------------------------------------------------------------------
(* transfer.ts step() and deposit.ts executeWatchdogDeposit(): the attempt *)

\* the attempt function is entered: up to its first stepExecution
StartSteps(r, h1) ==
  /\ rec' = recordFlowStart(r, now)
  /\ call' = NewCall(Steps(flow)[1], now)
  /\ stage' = 1
  /\ pc' = "step"
  /\ h' = [h1 EXCEPT !.writes = [s \in StepNames |-> 0],
                     !.over = [s \in StepNames |-> "no"]]

\* iteration k of the for loop calls the attempt function; res is the value
\* the loop's `result` holds meanwhile
BeginAttempt(k, r, h0, res) ==
  LET h1 == [h0 EXCEPT !.entered = TRUE, !.fee = Null, !.issued = FALSE]
  IN /\ i' = k
     /\ result' = res
     /\ IF flow = "transfer"
        THEN /\ locked' = TRUE      \* withLock: the mutex is free, acquire() grants it
             /\ StartSteps(r, h1)
        ELSE /\ locked' = locked
             /\ IF cfg.baseTokenIsEth
                THEN StartSteps(r, h1)
                ELSE /\ pc' = "preflight"   \* awaiting getAllowanceL1 / approveERC20 / getBalanceL1
                     /\ stage' = 0
                     /\ h' = h1
                     /\ rec' = r
                     /\ call' = call

\* the attempt function returns res; run() goes on to its next await
AttemptReturns(res, r, h1) ==
  /\ rec' = r
  /\ result' = res
  /\ call' = NoCall
  /\ stage' = 0
  /\ locked' = FALSE              \* withLock releases (transfer); never held otherwise
  /\ h' = [h1 EXCEPT !.results = Remember(h1.results, res), !.lastOutcome = res]
  /\ pc' = IF Breaks(flow, res) THEN "cycle_wait" ELSE "retry_wait"
  /\ i' = i

BeginCycleHistory(h0) == [h0 EXCEPT !.results = <<>>, !.entered = FALSE]
ReachLoop(h0) == [h0 EXCEPT !.entered = TRUE]

\* a cycle of run(): nextExecutionWait is armed and the for loop starts at 0
BeginCycle(r, h0) ==
  IF LoopContinues(0, cfg.retryLimit)
  THEN BeginAttempt(0, r, BeginCycleHistory(h0), "none")
  ELSE /\ pc' = "cycle_wait"
       /\ rec' = r
       /\ result' = "none"
       /\ h' = ReachLoop(BeginCycleHistory(h0))
       /\ UNCHANGED <<i, stage, call, locked>>

\* SimpleTxFlow.run(): first cycle, and every cycle after nextExecutionWait
TransferCycle ==
  /\ flow = "transfer"
  /\ pc \in {"start", "cycle_wait"}
  /\ cycle < MaxCycles
  /\ cycle' = cycle + 1
  /\ BeginCycle(rec, h)
  /\ UNCHANGED <<flow, cfg, now, abandoned, chain>>

\* the retry interval of a for loop elapsed: i++ and the loop test
RetryWaitDone ==
  /\ flow \in {"transfer", "deposit"}
  /\ pc = "retry_wait"
  /\ IF LoopContinues(i + 1, cfg.retryLimit)
     THEN BeginAttempt(i + 1, rec, h, result)
     ELSE /\ pc' = "cycle_wait"
          /\ i' = i + 1
          /\ h' = h
          /\ UNCHANGED <<stage, result, rec, call, locked>>
  /\ UNCHANGED <<flow, cfg, cycle, now, abandoned, chain>>

\* the in-flight step's work resolves before the timer fired
StepResolved ==
  /\ pc = "step"
  /\ \E gas \in Gases, price \in Prices,
        fee \in IF stage < Len(Steps(flow)) THEN Fees(flow, Steps(flow)[stage + 1]) ELSE {Null} :
       LET step == call.step
           p == Settle(call.promise, Fulfilled)
           r0 == WorkHooks(rec, flow, step, gas, price)
           r1 == IF Continues(p) THEN stepRecord(r0, step, call.start, now) ELSE r0
           h1 == [h EXCEPT !.settled = [step |-> step, first |-> "resolve",
                                        second |-> "none", promise |-> p],
                           !.writes[step] = IF Continues(p) THEN @ + 1 ELSE @,
                           !.over[step] = "fulfilled"]
           next == Steps(flow)[stage + 1]
       IN IF stage < Len(Steps(flow))
          THEN /\ rec' = r1
               /\ IF flow = "deposit" /\ step = "l1_execution"
                  THEN /\ pc' = "main_contract"   \* awaiting getMainContractAddress()
                       /\ call' = NoCall
                       /\ h' = h1
                  ELSE /\ pc' = "step"
                       /\ call' = NewCall(next, now)
                       /\ h' = [h1 EXCEPT !.issued = @ \/ Submits(flow, next),
                                          !.fee = IF Submits(flow, next) THEN fee ELSE @]
               /\ stage' = stage + 1
               /\ UNCHANGED <<i, result, locked>>
          ELSE IF recordFlowSuccessThrows(r1)
               THEN AttemptReturns(FAIL, recordFlowFailure(r1),   \* caught by the attempt's catch
                                   [h1 EXCEPT !.op = "recordFlowSuccess", !.threw = TRUE])
               ELSE AttemptReturns(OK, recordFlowSuccess(r1, now), h1)
  /\ UNCHANGED <<flow, cfg, cycle, now, abandoned, chain>>

\* the in-flight step's work rejects before the timer fired
StepRejected ==
  /\ pc = "step"
  /\ \E gas \in Gases, price \in Prices :
     \E r0 \in PartialHooks(rec, flow, call.step, gas, price) :
       LET step == call.step
           p == Settle(call.promise, RejectedByWork)
           r1 == IF Continues(p) THEN stepRecord(r0, step, call.start, now) ELSE r0
           h1 == [h EXCEPT !.settled = [step |-> step, first |-> "reject",
                                        second |-> "none", promise |-> p],
                           !.writes[step] = IF Continues(p) THEN @ + 1 ELSE @,
                           !.over[step] = "rejected"]
       IN AttemptReturns(FAIL, recordFlowFailure(r1), h1)
  /\ UNCHANGED <<flow, cfg, cycle, now, abandoned, chain>>

\* the timer of withTimeout fires first: the work is abandoned, still running
StepTimedOut ==
  /\ pc = "step"
  /\ call.timer
  /\ DateNow(now) - call.start >= StepTimeoutMs
  /\ LET step == call.step
         p == Settle(call.promise, TimedOut(step))
         r1 == IF Continues(p) THEN stepRecord(rec, step, call.start, now) ELSE rec
         h1 == [h EXCEPT !.settled = [step |-> step, first |-> "timer",
                                      second |-> "none", promise |-> p],
                         !.writes[step] = IF Continues(p) THEN @ + 1 ELSE @,
                         !.over[step] = "timeout"]
     IN AttemptReturns(FAIL, recordFlowFailure(r1), h1)
  /\ abandoned' = abandoned (+) SetToBag({call.step})
  /\ UNCHANGED <<flow, cfg, cycle, now, chain>>

\* deposit.ts: the awaits before recordFlowStart (base token is an ERC20) resolve
PreflightDone ==
  /\ pc = "preflight"
  /\ StartSteps(rec, h)
  /\ UNCHANGED <<flow, cfg, cycle, i, result, now, abandoned, locked, chain>>

\* one of them throws: the catch block seals a run that was never started
PreflightThrows ==
  /\ pc = "preflight"
  /\ AttemptReturns(FAIL, recordFlowFailure(rec), h)
  /\ UNCHANGED <<flow, cfg, cycle, now, abandoned, chain>>

\* deposit.ts: getMainContractAddress() resolves, the l2_execution step starts
MainContractResolved ==
  /\ pc = "main_contract"
  /\ LET next == Steps(flow)[stage]
     IN /\ call' = NewCall(next, now)
        /\ h' = h
  /\ pc' = "step"
  /\ UNCHANGED <<flow, cfg, cycle, i, stage, result, rec, now, abandoned, locked, chain>>

MainContractThrows ==
  /\ pc = "main_contract"
  /\ AttemptReturns(FAIL, recordFlowFailure(rec), h)
  /\ UNCHANGED <<flow, cfg, cycle, now, abandoned, chain>>

\* Abandoned work completes after its timer fired.  Its hooks write the gas
\* gauges; the then-handler calls clearTimeout and resolve on a promise that
\* was rejected by the timer.  Only if that call changed the promise would the
\* awaiting stepExecution be resumed and write its step record.  Every
\* timed-out stepExecution left one work behind: `abandoned` counts them, and
\* one completion takes one of them away.
LateWorkResolved ==
  /\ \E step \in BagToSet(abandoned) :
     \E gas \in Gases, price \in Prices :
       LET p == Settle(TimedOut(step), Fulfilled)
           r0 == WorkHooks(rec, flow, step, gas, price)
       IN /\ abandoned' = abandoned (-) SetToBag({step})
          /\ h' = [h EXCEPT !.settled = [step |-> step, first |-> "timer",
                                           second |-> "resolve", promise |-> p],
                            !.writes[step] = IF p # TimedOut(step) /\ Continues(p) THEN @ + 1 ELSE @]
          /\ rec' = IF p # TimedOut(step) /\ Continues(p)
                    THEN stepRecord(r0, step, DateNow(now), now)
                    ELSE r0
  /\ UNCHANGED <<flow, cfg, cycle, pc, i, stage, result, now, call, locked, chain>>

\* abandoned work throws after its timer fired, after the hooks it had reached
LateWorkRejected ==
  /\ \E step \in BagToSet(abandoned) :
     \E gas \in Gases, price \in Prices :
     \E r0 \in PartialHooks(rec, flow, step, gas, price) :
       LET p == Settle(TimedOut(step), RejectedByWork)
       IN /\ abandoned' = abandoned (-) SetToBag({step})
          /\ h' = [h EXCEPT !.settled = [step |-> step, first |-> "timer",
                                           second |-> "reject", promise |-> p]]
          /\ rec' = r0
  /\ UNCHANGED <<flow, cfg, cycle, pc, i, stage, result, now, call, locked, chain>>

----------------------------------------------------------------------------
(* Deposit reconciliation as the run loops see it: what getLastExecution   *)
(* may return while the L1 chain time is T.                                *)

Unknown ==
  [ status |-> "null", timestampL1 |-> 0, timestampL2 |-> Null, secSinceL1Deposit |-> Null,
    l1Gas |-> Null, l1GasPrice |-> Null, l2Gas |-> Null, l2GasPrice |-> Null ]

LastExecutions(T) ==
  {Unknown}
  \cup { [ status |-> FAIL, timestampL1 |-> t1, timestampL2 |-> Null, secSinceL1Deposit |-> T - t1,
           l1Gas |-> g, l1GasPrice |-> p, l2Gas |-> Null, l2GasPrice |-> Null ] :
         t1 \in 0..T, g \in Gases, p \in Prices }
  \cup { [ status |-> OK, timestampL1 |-> t[1], timestampL2 |-> t[2], secSinceL1Deposit |-> T - t[1],
           l1Gas |-> g, l1GasPrice |-> p, l2Gas |-> g, l2GasPrice |-> p ] :
         t \in {x \in (0..T) \X (0..MaxChainTime) : x[1] <= x[2]}, g \in Gases, p \in Prices }

\* The L1 chain produces a block.  Its time is observable only through the
\* reads of the deposit flows: the transfer flow never reads it, the deposit
\* flow reads it at start-up only.
AdvanceChain ==
  /\ \/ flow = "depositUser"
     \/ flow = "deposit" /\ pc \in {"start", "dep_last", "dep_ts"}
  /\ chain.time < MaxChainTime
  /\ chain' = [chain EXCEPT !.time = @ + 1]
  /\ UNCHANGED <<flow, cfg, cycle, pc, i, stage, result, rec, now, call, abandoned, locked, h>>

\* an await of run() outside any try block rejects: run() itself rejects
RunThrows ==
  /\ pc \in {"dep_last", "dep_ts", "du_ts", "du_some", "du_our"}
  /\ pc' = "crashed"
  /\ UNCHANGED <<flow, cfg, cycle, i, stage, result, rec, now, call, abandoned, locked, chain, h>>

----------------------------------------------------------------------------
(* DepositFlow.run() *)

DepositRun ==
  /\ flow = "deposit"
  /\ pc = "start"
  /\ pc' = "dep_last"        \* awaiting getLastExecution(this.wallet.address)
  /\ UNCHANGED <<flow, cfg, cycle, i, stage, result, rec, now, call, abandoned, locked, chain, h>>

DepositLastResolved ==
  /\ pc = "dep_last"
  /\ \E res \in LastExecutions(chain.time) :
       chain' = [chain EXCEPT !.last = [status |-> res.status, timestampL1 |-> res.timestampL1]]
  /\ pc' = "dep_ts"          \* awaiting getCurrentChainTimestamp()
  /\ UNCHANGED <<flow, cfg, cycle, i, stage, result, rec, now, call, abandoned, locked, h>>

DepositTsResolved ==
  /\ pc = "dep_ts"
  /\ LET currentBlockchainTimestamp == chain.time
         timeSinceLastDeposit == currentBlockchainTimestamp - chain.last.timestampL1
         r == IF chain.last.status # "null"
              THEN recordPreviousExecutionStatus(rec, chain.last.status)
              ELSE rec
         h1 == IF chain.last.status # "null"
               THEN [h EXCEPT !.lastOutcome = chain.last.status]
               ELSE h
     IN IF timeSinceLastDeposit < (IntervalTicks * SEC) \div SEC
        THEN /\ pc' = "startup_wait"
             /\ rec' = r
             /\ h' = h1
             /\ UNCHANGED <<cycle, i, stage, result, call, locked>>
        ELSE /\ cycle' = cycle + 1
             /\ BeginCycle(r, h1)
  /\ chain' = [chain EXCEPT !.last = Null]     \* lastExecution is not read again
  /\ UNCHANGED <<flow, cfg, now, abandoned>>

\* the start-up wait or nextExecutionWait elapsed
DepositCycle ==
  /\ flow = "deposit"
  /\ pc \in {"startup_wait", "cycle_wait"}
  /\ cycle < MaxDepositCycles
  /\ cycle' = cycle + 1
  /\ BeginCycle(rec, h)
  /\ UNCHANGED <<flow, cfg, now, abandoned, chain>>

----------------------------------------------------------------------------
(* DepositUserFlow *)

\* recordDepositResult(result) on the recorder; result.status is OK or FAIL
recordDepositResult(r, res) ==
  IF res.status = OK
  THEN LET r1 == manualRecordStatus(r, res.status, res.timestampL2 - res.timestampL1)
           r2 == manualRecordStepCompletion(r1, "l1_execution", 0, res.timestampL1)
           r3 == manualRecordStepGas(r2, "l1_execution", res.l1Gas)
           r4 == manualRecordStepGasPrice(r3, "l1_execution", res.l1GasPrice)
           r5 == manualRecordStepGasCost(r4, "l1_execution", res.l1Gas * res.l1GasPrice)
           r6 == manualRecordStepCompletion(r5, "l2_execution",
                                            res.timestampL2 - res.timestampL1, res.timestampL2)
           r7 == manualRecordStepGas(r6, "l2_execution", res.l2Gas)
           r8 == manualRecordStepGasPrice(r7, "l2_execution", res.l2GasPrice)
       IN manualRecordStepGasCost(r8, "l2_execution", res.l2Gas * res.l2GasPrice)
  ELSE manualRecordStatus(r, res.status, 0)

\* ... and on the flow's own watchdog_time_since_last_deposit gauge
recordDepositResultGauge(c, res) ==
  IF res.status = OK THEN [c EXCEPT !.sinceLastDeposit = res.secSinceL1Deposit] ELSE c

\* first cycle, and every cycle after nextExecutionWait
DepositUserCycle ==
  /\ flow = "depositUser"
  /\ pc \in {"start", "cycle_wait"}
  /\ cycle < MaxCycles
  /\ cycle' = cycle + 1
  /\ pc' = "du_ts"           \* awaiting getCurrentChainTimestamp()
  /\ result' = "none"
  /\ h' = BeginCycleHistory(h)
  /\ UNCHANGED <<flow, cfg, i, stage, rec, now, call, abandoned, locked, chain>>

DepositUserTsResolved ==
  /\ pc = "du_ts"
  /\ chain' = [chain EXCEPT !.cycleTs = chain.time]
  /\ pc' = "du_some"         \* awaiting getLastExecution(void 0)
  /\ UNCHANGED <<flow, cfg, cycle, i, stage, result, rec, now, call, abandoned, locked, h>>

DepositUserSomeResolved ==
  /\ pc = "du_some"
  /\ \E someDepositResult \in LastExecutions(chain.time) :
       LET timeSinceLastDeposit == chain.cycleTs - someDepositResult.timestampL1
       IN IF someDepositResult.status = OK
          THEN /\ rec' = recordDepositResult(rec, someDepositResult)
               /\ chain' = recordDepositResultGauge(chain, someDepositResult)
               /\ h' = [h EXCEPT !.lastOutcome = OK]
               /\ pc' = IF timeSinceLastDeposit * SEC > TriggerDelayTicks * SEC
                        THEN "du_our"     \* awaiting getLastExecution(wallet.address)
                        ELSE "cycle_wait"
          ELSE /\ pc' = "du_our"
               /\ UNCHANGED <<rec, chain, h>>
  /\ UNCHANGED <<flow, cfg, cycle, i, stage, result, now, call, abandoned, locked>>

\* executeDepositTx() is called: up to its first await
BeginDepositTx(k, h0) ==
  /\ i' = k
  /\ pc' = "du_tx"
  /\ stage' = 1              \* awaiting getCurrentChainTimestamp()
  /\ h' = [h0 EXCEPT !.entered = TRUE, !.fee = Null, !.issued = FALSE]

DepositUserOurResolved ==
  /\ pc = "du_our"
  /\ \E lastOurExecution \in LastExecutions(chain.time) :
       LET timeSinceLastOurDeposit ==
             chain.cycleTs - Max(lastOurExecution.timestampL1, chain.lastOnChain)
       IN IF timeSinceLastOurDeposit * SEC > TriggerDelayTicks * SEC
          THEN IF LoopContinues(0, cfg.retryLimit)
               THEN /\ BeginDepositTx(0, h)
                    /\ UNCHANGED <<rec, chain>>
               ELSE /\ pc' = "cycle_wait"
                    /\ i' = 0
                    /\ h' = ReachLoop(h)
                    /\ UNCHANGED <<stage, rec, chain>>
          ELSE /\ pc' = "cycle_wait"
               /\ IF lastOurExecution.status # "null"
                  THEN /\ rec' = recordDepositResult(rec, lastOurExecution)
                       /\ chain' = recordDepositResultGauge(chain, lastOurExecution)
                       /\ h' = [h EXCEPT !.lastOutcome = lastOurExecution.status]
                  ELSE UNCHANGED <<rec, chain, h>>
               /\ UNCHANGED <<i, stage>>
  /\ UNCHANGED <<flow, cfg, cycle, result, now, call, abandoned, locked>>

\* executeDepositTx() returned res: the switch, the break test and the loop
\* test of run(), up to its next await
DepositTxReturns(res, r, c, h0) ==
  LET h1 == [h0 EXCEPT !.results = Remember(h0.results, res), !.lastOutcome = res]
      attempt == IF DepositUserCounts(res) THEN i + 1 ELSE i
  IN /\ rec' = r
     /\ result' = res
     /\ IF DepositUserCounts(res)
        THEN /\ pc' = "retry_wait"       \* awaiting timeoutPromise(DEPOSIT_RETRY_INTERVAL)
             /\ i' = attempt
             /\ stage' = 0
             /\ h' = h1
             /\ chain' = c
        ELSE IF DepositUserBreaks(res) \/ ~LoopContinues(attempt, cfg.retryLimit)
        THEN /\ pc' = "cycle_wait"
             /\ i' = attempt
             /\ stage' = 0
             /\ h' = h1
             /\ chain' = c
        ELSE /\ BeginDepositTx(attempt, h1)
             /\ chain' = c

\* the awaited call of executeDepositTx() resolves
DepositTxResolved ==
  /\ pc = "du_tx"
  /\ IF stage = 1
     THEN /\ chain' = [chain EXCEPT !.lastOnChain = chain.time]
          /\ stage' = 2          \* awaiting getFeeData()
          /\ UNCHANGED <<pc, i, result, rec, h>>
     ELSE IF stage = 2
     THEN \E maxFeePerGas \in {Null} \cup 0..MaxFee :   \* null: no EIP-1559 fee on L1
            IF maxFeePerGas = Null     \* unwrap() throws: caught by the catch block
            THEN DepositTxReturns(FAIL, manualRecordStatus(rec, FAIL, 0), chain,
                                  [h EXCEPT !.op = "unwrap", !.threw = TRUE])
            ELSE IF maxFeePerGas > GasPriceLimit
            THEN DepositTxReturns(SKIP, manualRecordStatus(rec, SKIP, 0), chain,
                                  [h EXCEPT !.fee = maxFeePerGas])
            ELSE /\ stage' = 3     \* awaiting wallet.deposit(...)
                 /\ h' = [h EXCEPT !.fee = maxFeePerGas, !.issued = TRUE]
                 /\ UNCHANGED <<pc, i, result, rec, chain>>
     ELSE IF stage < 7           \* waitL1Commit, getMainContractAddress, wait
     THEN /\ stage' = stage + 1
          /\ UNCHANGED <<pc, i, result, rec, chain, h>>
     ELSE \E watchdogTxResult \in LastExecutions(chain.time) :
            IF watchdogTxResult.status = "null"
            THEN DepositTxReturns(FAIL, manualRecordStatus(rec, FAIL, 0), chain, h)
            ELSE DepositTxReturns(watchdogTxResult.status,
                                  recordDepositResult(rec, watchdogTxResult),
                                  recordDepositResultGauge(chain, watchdogTxResult), h)
  /\ UNCHANGED <<flow, cfg, cycle, now, call, abandoned, locked>>

\* it rejects: the catch block of executeDepositTx()
DepositTxThrows ==
  /\ pc = "du_tx"
  /\ DepositTxReturns(FAIL, manualRecordStatus(rec, FAIL, 0), chain, h)
  /\ UNCHANGED <<flow, cfg, cycle, now, call, abandoned, locked>>

\* the retry interval elapsed: `if (result === Status.OK) break` and the loop test
DepositUserRetryWaitDone ==
  /\ flow = "depositUser"
  /\ pc = "retry_wait"
  /\ IF DepositUserBreaks(result) \/ ~LoopContinues(i, cfg.retryLimit)
     THEN /\ pc' = "cycle_wait"
          /\ UNCHANGED <<i, stage, h>>
     ELSE BeginDepositTx(i, h)
  /\ UNCHANGED <<flow, cfg, cycle, result, rec, now, call, abandoned, locked, chain>>

----------------------------------------------------------------------------
Next ==
  \/ Tick
  \/ AdvanceChain
  \/ TransferCycle
  \/ RetryWaitDone
  \/ StepResolved
  \/ StepRejected
  \/ StepTimedOut
  \/ PreflightDone
  \/ PreflightThrows
  \/ MainContractResolved
  \/ MainContractThrows
  \/ LateWorkResolved
  \/ LateWorkRejected
  \/ RunThrows
  \/ DepositRun
  \/ DepositLastResolved
  \/ DepositTsResolved
  \/ DepositCycle
  \/ DepositUserCycle
  \/ DepositUserTsResolved
  \/ DepositUserSomeResolved
  \/ DepositUserOurResolved
  \/ DepositTxResolved
  \/ DepositTxThrows
  \/ DepositUserRetryWaitDone

Spec == Init /\ [][Next]_vars

----------------------------------------------------------------------------
(* The recorder on its own: a caller invokes the public operations of      *)
(* FlowMetricRecorder in any order, as its interface allows.               *)

Called(op, threw) == [h EXCEPT !.op = op, !.threw = threw, !.calls = 1 - @]

RecorderInit ==
  /\ flow = "transfer"
  /\ cfg = [retryLimit |-> 0, baseTokenIsEth |-> TRUE]
  /\ pc = "caller"
  /\ cycle = 0
  /\ i = 0
  /\ stage = 0
  /\ result = "none"
  /\ rec = NewRecorder
  /\ now = 1
  /\ call = NoCall
  /\ abandoned = {}
  /\ locked = FALSE
  /\ chain = [time |-> 0, cycleTs |-> Null, lastOnChain |-> 0, last |-> Null, sinceLastDeposit |-> Null]
  /\ h = NewHistory

CallRecordFlowStart ==
  /\ pc = "caller"
  /\ rec' = recordFlowStart(rec, now)
  /\ h' = Called("recordFlowStart", FALSE)
  /\ UNCHANGED <<flow, cfg, cycle, pc, i, stage, result, now, call, abandoned, locked, chain>>

CallRecordFlowSuccess ==
  /\ pc = "caller"
  /\ rec' = recordFlowSuccess(rec, now)
  /\ h' = [Called("recordFlowSuccess", recordFlowSuccessThrows(rec)) EXCEPT
             !.lastOutcome = IF recordFlowSuccessThrows(rec) THEN @ ELSE OK]
  /\ UNCHANGED <<flow, cfg, cycle, pc, i, stage, result, now, call, abandoned, locked, chain>>

CallRecordFlowSkipped ==
  /\ pc = "caller"
  /\ rec' = recordFlowSkipped(rec, now)
  /\ h' = [Called("recordFlowSkipped", recordFlowSkippedThrows(rec)) EXCEPT
             !.lastOutcome = IF recordFlowSkippedThrows(rec) THEN @ ELSE SKIP]
  /\ UNCHANGED <<flow, cfg, cycle, pc, i, stage, result, now, call, abandoned, locked, chain>>

CallRecordFlowFailure ==
  /\ pc = "caller"
  /\ rec' = recordFlowFailure(rec)
  /\ h' = [Called("recordFlowFailure", FALSE) EXCEPT !.lastOutcome = FAIL]
  /\ UNCHANGED <<flow, cfg, cycle, pc, i, stage, result, now, call, abandoned, locked, chain>>

CallManualRecordStatus ==
  /\ pc = "caller"
  /\ \E status \in Status, latencyTotalSec \in 0..MaxNow :
       /\ rec' = manualRecordStatus(rec, status, latencyTotalSec)
       /\ h' = [Called("manualRecordStatus", FALSE) EXCEPT !.lastOutcome = status]
  /\ UNCHANGED <<flow, cfg, cycle, pc, i, stage, result, now, call, abandoned, locked, chain>>

CallRecordPreviousExecutionStatus ==
  /\ pc = "caller"
  /\ \E status \in StatusNoSkip :
       /\ rec' = recordPreviousExecutionStatus(rec, status)
       /\ h' = [Called("recordPreviousExecutionStatus", FALSE) EXCEPT !.lastOutcome = status]
  /\ UNCHANGED <<flow, cfg, cycle, pc, i, stage, result, now, call, abandoned, locked, chain>>

RecorderNext ==
  \/ Tick
  \/ CallRecordFlowStart
  \/ CallRecordFlowSuccess
  \/ CallRecordFlowSkipped
  \/ CallRecordFlowFailure
  \/ CallManualRecordStatus
  \/ CallRecordPreviousExecutionStatus

RecorderSpec == RecorderInit /\ [][RecorderNext]_vars

----------------------------------------------------------------------------
(* Reconciliation: getLastExecution of DepositBaseFlow (the L1 deposit     *)
(* events of the shared bridge) and of WithdrawalBaseFlow (the L2          *)
(* withdrawal events of the base token).  Here `chain` is the chain the    *)
(* query reads, `cfg` the block-range limit and the block tag, `call` the  *)
(* locals of the call in progress and `result` the value it returns.       *)

Reconciliations == {"deposit", "withdrawal"}

\* block.timestamp of block b: one block a second, genesis at second 1
BlockTimestamp(b) == b + 1

\* the chain at the time of the call: its head, its latest finalized block
\* and the matching events on it, in the order the provider lists them
Event(b, k) == [blockNumber |-> b, transactionHash |-> k]
Chains ==
  UNION { { [ head |-> head, finalized |-> fin,
              logs |-> [k \in 1..n |-> Event(blocks[k], k)] ] :
            blocks \in [1..n -> 0..head] } :
          <<head, fin, n>> \in { x \in (0..MaxHead) \X (0..MaxHead) \X (0..MaxEvents) :
                                 x[2] <= x[1] } }

\* provider.getLogs({fromBlock, toBlock}): the matching events of the range
getLogs(logs, fromBlock, toBlock) ==
  SelectSeq(logs, LAMBDA e : fromBlock <= e.blockNumber /\ e.blockNumber <= toBlock)

\* fromBlock of the log query
FromBlockUnclamped(topBlock, maxLogsBlocks) == topBlock - maxLogsBlocks
FromBlock(topBlock, maxLogsBlocks) == Max(topBlock - maxLogsBlocks, 0)

\* the comparator of events.sort
ByBlockAscending(a, b) == a.blockNumber - b.blockNumber
ByBlockDescending(a, b) == b.blockNumber - a.blockNumber

\* Array.prototype.sort: stable, a before b unless the comparator is positive
RECURSIVE SortInsert(_, _)
SortInsert(e, s) ==
  IF s = <<>> THEN <<e>>
  ELSE IF ByBlockDescending(e, Head(s)) <= 0 THEN <<e>> \o s
  ELSE <<Head(s)>> \o SortInsert(e, Tail(s))

RECURSIVE SortEvents(_)
SortEvents(s) == IF s = <<>> THEN <<>> ELSE SortInsert(Head(s), SortEvents(Tail(s)))

\* `if (events.length === 0)`
NoEventsNever(events) == FALSE
NoEvents(events) == Len(events) = 0

\* receipts: hash Null stands for null
NoReceipt == [hash |-> Null, status |-> Null]
\* event.getTransactionReceipt(): the receipt of the transaction that emitted it
EventReceipt(event) == [hash |-> event.transactionHash, status |-> 1]
\* utils.getL2HashFromPriorityOp: the L2 transaction of an L1 deposit
L2Hash(l1Receipt) == l1Receipt.hash + MaxEvents

\* how waitForTransaction(l2TxHash, 1, PRIORITY_OP_TIMEOUT) may settle
WaitOutcomes(l2TxHash) ==
  { [settled |-> "rejected", error |-> "timeout", receipt |-> NoReceipt],
    [settled |-> "rejected", error |-> "provider", receipt |-> NoReceipt],
    [settled |-> "fulfilled", error |-> "", receipt |-> NoReceipt],
    [settled |-> "fulfilled", error |-> "", receipt |-> [hash |-> l2TxHash, status |-> 0]],
    [settled |-> "fulfilled", error |-> "", receipt |-> [hash |-> l2TxHash, status |-> 1]] }

\* `try { l2Receipt = await ...waitForTransaction(...) } catch { log }`:
\* what l2Receipt holds afterwards, and whether the error escapes
WaitUncaught(outcome) ==
  [threw |-> outcome.settled = "rejected", l2Receipt |-> outcome.receipt]
WaitCaught(outcome) ==
  [threw |-> FALSE,
   l2Receipt |-> IF outcome.settled = "fulfilled" THEN outcome.receipt ELSE NoReceipt]

\* `blockchainTime - timestampL1`
SecSinceReversed(blockchainTime, timestampL1) == timestampL1 - blockchainTime
SecSinceL1Deposit(blockchainTime, timestampL1) == blockchainTime - timestampL1

\* `l2Receipt == null` / `l2Receipt.status != 1`: the branch of the result
L2StatusIgnoresReceipt(l2Receipt) == OK
L2Status(l2Receipt) ==
  IF l2Receipt = NoReceipt THEN FAIL
  ELSE IF l2Receipt.status # 1 THEN FAIL
  ELSE OK

NoResult == [status |-> "none"]
ExecutionResultUnknown == [status |-> "null", timestampL1 |-> 0]
L1Res(c) ==
  [secSinceL1Deposit |-> c.secSinceL1Deposit, l1Receipt |-> c.l1Receipt,
   timestampL1 |-> c.timestampL1]
KnownFail(c) ==
  [secSinceL1Deposit |-> L1Res(c).secSinceL1Deposit, l1Receipt |-> L1Res(c).l1Receipt,
   timestampL1 |-> L1Res(c).timestampL1, status |-> FAIL]
KnownOk(c, l2Receipt, timestampL2) ==
  [secSinceL1Deposit |-> L1Res(c).secSinceL1Deposit, l1Receipt |-> L1Res(c).l1Receipt,
   timestampL1 |-> L1Res(c).timestampL1, l2Receipt |-> l2Receipt,
   timestampL2 |-> timestampL2, status |-> OK]

\* WithdrawalBaseFlow: null, or the L2 receipt and its block's timestamp
WithdrawalNull == [isNull |-> TRUE]
WithdrawalKnown(l2Receipt, timestampL2) ==
  [isNull |-> FALSE, l2Receipt |-> l2Receipt, timestampL2 |-> timestampL2]

NoEvent == Event(Null, Null)
NewQuery ==
  [ topBlock |-> Null, blockchainTime |-> Null, fromBlock |-> Null, toBlock |-> Null,
    events |-> <<>>, event |-> NoEvent, timestampL1 |-> Null, timestampL2 |-> Null,
    l1Receipt |-> NoReceipt,
    secSinceL1Deposit |-> Null, l2Receipt |-> NoReceipt ]

\* history of a query: what the provider was asked and what it answered
NewQueryHistory ==
  [ queried |-> FALSE,      \* getLogs was answered
    headAtStart |-> Null,   \* the block number the query read at its start
    window |-> <<>>,        \* the events getLogs returned, as returned
    waited |-> FALSE,       \* waitForTransaction was called
    l2 |-> [settled |-> "none", error |-> "", receipt |-> NoReceipt],  \* how it settled
    l2BlockTime |-> Null ]  \* timestamp of the block of the L2 receipt

ReconInit ==
  /\ flow \in Reconciliations
  /\ cfg \in [maxLogsBlocks : 0..MaxLogsBlocks, blockType : {"latest", "finalized"}]
  /\ flow = "deposit" => cfg.blockType = "latest"
  /\ chain \in Chains
  /\ flow = "deposit" => chain.finalized = chain.head
  /\ pc = "gle_call"
  /\ cycle = 0
  /\ i = 0
  /\ stage = 0
  /\ result = NoResult
  /\ rec = NewRecorder
  /\ now = 1
  /\ call = NewQuery
  /\ abandoned = {}
  /\ locked = FALSE
  /\ h = NewQueryHistory

\* the chain grows by a block while the query is between its two reads of
\* the head (the later steps read no head)
BlockMined ==
  /\ pc = "gle_time"
  /\ chain.head < MaxHead
  /\ chain' = [chain EXCEPT !.head = @ + 1]
  /\ UNCHANGED <<flow, cfg, pc, cycle, i, stage, result, rec, now, call, abandoned, locked, h>>

\* getLastExecution returns v to its caller
Returns(v, c, h1) ==
  /\ pc' = "returned"
  /\ result' = v
  /\ call' = c
  /\ h' = h1

\* an await of getLastExecution outside its try block rejects, or a
\* statement throws: the promise of getLastExecution rejects
Throws(c, h1) ==
  /\ pc' = "threw"
  /\ result' = NoResult
  /\ call' = c
  /\ h' = h1

\* the log query is answered: sort, then the `events.length === 0` branch
LogsAnswered(nextPc) ==
  LET fromBlock == FromBlock(call.topBlock, cfg.maxLogsBlocks)
      toBlock == call.topBlock
      answer == getLogs(chain.logs, fromBlock, toBlock)
      events == SortEvents(answer)
      c == [call EXCEPT !.fromBlock = fromBlock, !.toBlock = toBlock, !.events = events]
      h1 == [h EXCEPT !.queried = TRUE, !.window = answer]
  IN IF NoEvents(events)
     THEN Returns(IF flow = "deposit" THEN ExecutionResultUnknown ELSE WithdrawalNull, c, h1)
     ELSE IF Len(events) = 0
     THEN Throws(c, h1)     \* events[0] is undefined: event.getBlock() is a TypeError
     ELSE /\ pc' = nextPc
          /\ result' = result
          /\ call' = [c EXCEPT !.event = events[1]]
          /\ h' = h1

\* DepositBaseFlow.getLastExecution is called: up to getBlockNumber()
DepositQueryCalled ==
  /\ flow = "deposit"
  /\ pc = "gle_call"
  /\ pc' = "gle_top"
  /\ UNCHANGED <<flow, cfg, cycle, i, stage, result, rec, now, call, abandoned, locked, chain, h>>

\* getBlockNumber() resolves
DepositTopBlock ==
  /\ pc = "gle_top"
  /\ pc' = "gle_time"
  /\ call' = [call EXCEPT !.topBlock = chain.head]
  /\ h' = [h EXCEPT !.headAtStart = chain.head]
  /\ UNCHANGED <<flow, cfg, cycle, i, stage, result, rec, now, abandoned, locked, chain>>

\* getCurrentChainTimestamp() resolves: the timestamp of the latest block
DepositChainTime ==
  /\ pc = "gle_time"
  /\ pc' = "gle_logs"
  /\ call' = [call EXCEPT !.blockchainTime = BlockTimestamp(chain.head)]
  /\ UNCHANGED <<flow, cfg, cycle, i, stage, result, rec, now, abandoned, locked, chain, h>>

\* getLogs() resolves
DepositLogs ==
  /\ pc = "gle_logs"
  /\ LogsAnswered("gle_block")
  /\ UNCHANGED <<flow, cfg, cycle, i, stage, rec, now, abandoned, locked, chain>>

\* event.getBlock() resolves
DepositEventBlock ==
  /\ pc = "gle_block"
  /\ pc' = "gle_receipt"
  /\ call' = [call EXCEPT !.timestampL1 = BlockTimestamp(call.event.blockNumber)]
  /\ UNCHANGED <<flow, cfg, cycle, i, stage, result, rec, now, abandoned, locked, chain, h>>

\* event.getTransactionReceipt() resolves: the L2 hash is derived, the
\* elapsed time computed, and waitForTransaction called
DepositEventReceipt ==
  /\ pc = "gle_receipt"
  /\ pc' = "gle_wait"
  /\ call' = [call EXCEPT !.l1Receipt = EventReceipt(call.event),
                          !.secSinceL1Deposit =
                             SecSinceL1Deposit(call.blockchainTime, call.timestampL1)]
  /\ h' = [h EXCEPT !.waited = TRUE]
  /\ UNCHANGED <<flow, cfg, cycle, i, stage, result, rec, now, abandoned, locked, chain>>

\* waitForTransaction settles, inside the try block
DepositL2Waited ==
  /\ pc = "gle_wait"
  /\ \E outcome \in WaitOutcomes(L2Hash(call.l1Receipt)) :
       LET after == WaitCaught(outcome)
           c == [call EXCEPT !.l2Receipt = after.l2Receipt]
           h1 == [h EXCEPT !.l2 = outcome]
       IN IF after.threw
          THEN Throws(c, h1)
          ELSE IF L2Status(after.l2Receipt) = FAIL
          THEN Returns(KnownFail(c), c, h1)
          ELSE IF after.l2Receipt = NoReceipt
          THEN Throws(c, h1)     \* l2Receipt.getBlock() on null is a TypeError
          ELSE /\ pc' = "gle_l2block"
               /\ result' = result
               /\ call' = c
               /\ h' = h1
  /\ UNCHANGED <<flow, cfg, cycle, i, stage, rec, now, abandoned, locked, chain>>

\* l2Receipt.getBlock() resolves
DepositL2Block ==
  /\ pc = "gle_l2block"
  /\ \E lag \in 0..MaxL2Lag :
       LET timestampL2 == call.timestampL1 + lag
       IN Returns(KnownOk(call, call.l2Receipt, timestampL2), call,
                  [h EXCEPT !.l2BlockTime = timestampL2])
  /\ UNCHANGED <<flow, cfg, cycle, i, stage, rec, now, abandoned, locked, chain>>

\* one of the reads outside the try block rejects (or unwrap finds no block)
QueryRejects ==
  /\ pc \in {"gle_top", "gle_time", "gle_logs", "gle_block", "gle_receipt", "gle_l2block",
             "wgle_top", "wgle_logs", "wgle_block", "wgle_receipt"}
  /\ Throws(call, h)
  /\ UNCHANGED <<flow, cfg, cycle, i, stage, rec, now, abandoned, locked, chain>>

\* WithdrawalBaseFlow.getLastExecution is called: MAX_LOGS_BLOCKS_L2 == "0"
\* disables it, else up to getBlock(blockType)
WithdrawalQueryCalled ==
  /\ flow # "deposit"
  /\ pc = "gle_call"
  /\ IF cfg.maxLogsBlocks = 0
     THEN Returns(WithdrawalNull, call, h)
     ELSE /\ pc' = "wgle_top"
          /\ UNCHANGED <<result, call, h>>
  /\ UNCHANGED <<flow, cfg, cycle, i, stage, rec, now, abandoned, locked, chain>>

\* getBlock(blockType) resolves
WithdrawalTopBlock ==
  /\ pc = "wgle_top"
  /\ pc' = "wgle_logs"
  /\ LET topBlockNumber == IF cfg.blockType = "latest" THEN chain.head ELSE chain.finalized
     IN /\ call' = [call EXCEPT !.topBlock = topBlockNumber]
        /\ h' = [h EXCEPT !.headAtStart = topBlockNumber]
  /\ UNCHANGED <<flow, cfg, cycle, i, stage, result, rec, now, abandoned, locked, chain>>

\* getLogs() resolves
WithdrawalLogs ==
  /\ pc = "wgle_logs"
  /\ LogsAnswered("wgle_block")
  /\ UNCHANGED <<flow, cfg, cycle, i, stage, rec, now, abandoned, locked, chain>>

\* event.getBlock() resolves
WithdrawalEventBlock ==
  /\ pc = "wgle_block"
  /\ pc' = "wgle_receipt"
  /\ call' = [call EXCEPT !.timestampL2 = BlockTimestamp(call.event.blockNumber)]
  /\ UNCHANGED <<flow, cfg, cycle, i, stage, result, rec, now, abandoned, locked, chain, h>>

\* event.getTransactionReceipt() resolves
WithdrawalEventReceipt ==
  /\ pc = "wgle_receipt"
  /\ Returns(WithdrawalKnown(EventReceipt(call.event), call.timestampL2), call, h)
  /\ UNCHANGED <<flow, cfg, cycle, i, stage, rec, now, abandoned, locked, chain>>

ReconNext ==
  \/ BlockMined
  \/ DepositQueryCalled
  \/ DepositTopBlock
  \/ DepositChainTime
  \/ DepositLogs
  \/ DepositEventBlock
  \/ DepositEventReceipt
  \/ DepositL2Waited
  \/ DepositL2Block
  \/ QueryRejects
  \/ WithdrawalQueryCalled
  \/ WithdrawalTopBlock
  \/ WithdrawalLogs
  \/ WithdrawalEventBlock
  \/ WithdrawalEventReceipt

ReconSpec == ReconInit /\ [][ReconNext]_vars

----------------------------------------------------------------------------
(* withdrawalFinalize.ts: run() and executeWithdrawalFinalize().  `chain`  *)
(* is the L2 chain, `result` the value the latest call returned (of        *)
(* getLastExecution while the attempt waits for it, else of the attempt),  *)
(* `call` the locals of the function that is running.                      *)

WithdrawalStepNames == {"get_finalization_params", "l1_simulation"}

\* the recorder of the flow, with the two gauges the flow itself owns
NewFinalizeRecorder ==
  [ startTime |-> Null,
    lastStepLatency |-> Null,
    lastExecutionTotalLatency |-> Null,
    status |-> "unset",
    latencyTotal |-> Null,
    latency |-> [s \in WithdrawalStepNames |-> Null],
    stepTimestamp |-> [s \in WithdrawalStepNames |-> Null],
    stepGas |-> [s \in WithdrawalStepNames |-> Null],
    stepGasPrice |-> [s \in WithdrawalStepNames |-> Null],
    stepGasCost |-> [s \in WithdrawalStepNames |-> Null],
    timeSinceLastFinalizableWithdrawal |-> Null,
    timeSinceLastFinalizedBlock |-> Null ]

\* the chains the flow is started on
FinalizeChains == { c \in Chains : Len(c.logs) <= 1 }

\* the calls the attempt makes on its wallet and providers
ReconciliationCall == "getLastExecution"
ChainTimeCall == "getBlock(latest)"
FinalizedTimeCall == "getBlock(finalized)"
ParamsCall == "getFinalizeWithdrawalParams"
BridgesCall == "getL1BridgeContracts"
SimulationCallSubmits == "finalizeWithdrawal"
SimulationCall == "finalizeWithdrawal.estimateGas"
\* those of them that submit no transaction
ReadOnlyCalls ==
  {"getLastExecution", "getBlock(latest)", "getBlock(finalized)",
   "getFinalizeWithdrawalParams", "getL1BridgeContracts", "finalizeWithdrawal.estimateGas"}

\* `!execution`
NoExecution(execution) == execution = WithdrawalNull

\* isAddressEq(sender, L2_BASE_TOKEN_ADDRESS)
Senders == {"L2_BASE_TOKEN_ADDRESS", "other"}
IsBaseToken(sender) == sender = "L2_BASE_TOKEN_ADDRESS"

\* locals of executeWithdrawalFinalize
NewAttempt(execution) ==
  [ execution |-> execution, blockTimestamp |-> Null, finalizedBlockTimestamp |-> Null,
    wt |-> NoCall ]

\* history of an attempt, on top of that of its query
NewFinalizeHistory ==
  [ queried |-> FALSE, headAtStart |-> Null, window |-> <<>>, waited |-> FALSE,
    l2 |-> [settled |-> "none", error |-> "", receipt |-> NoReceipt],
    l2BlockTime |-> Null,
    reconciled |-> FALSE,     \* getLastExecution returned
    calls |-> {},             \* the calls the attempt made
    lateCalls |-> {},         \* the calls abandoned work of earlier steps made since
    escaped |-> FALSE,        \* the catch block threw: the attempt rejected
    failed |-> "",            \* the call outside the steps that rejected, if any
    proof |-> "none",         \* how the get_finalization_params step ended
    sender |-> "none",        \* the sender in the parameters it fetched
    simulation |-> "none",    \* how the l1_simulation step ended
    opened |-> FALSE ]        \* recordFlowStart was called

\* the await the work of a step is suspended in
NoAwait == "none"
ParamsAwait == "getFinalizeWithdrawalParams"
NetworkAwait == "getNetwork"
EstimateAwait == "estimateGas"
Work(step, await) == [step |-> step, await |-> await]

FinalizeInit ==
  /\ flow = "withdrawalFinalize"
  /\ cfg \in [maxLogsBlocks : 0..MaxLogsBlocks, blockType : {"finalized"}, preV26 : BOOLEAN]
  /\ chain \in FinalizeChains
  /\ pc = "wf_run"
  /\ cycle = 0
  /\ i = 0
  /\ stage = NoAwait
  /\ result = NoResult
  /\ rec = NewFinalizeRecorder
  /\ now = 1
  /\ call = NewQuery
  /\ abandoned = EmptyBag
  /\ locked = FALSE
  /\ h = NewFinalizeHistory

\* an iteration of `while (true)`: executeWithdrawalFinalize is called, up to
\* its await of getLastExecution("finalized", wallet.address)
FinalizeAttemptBegins ==
  /\ cycle' = cycle + 1
  /\ pc' = "gle_call"
  /\ call' = NewQuery
  /\ result' = NoResult
  /\ h' = [NewFinalizeHistory EXCEPT !.calls = {ReconciliationCall},
                                     !.lateCalls = h.lateCalls]
  /\ UNCHANGED <<flow, cfg, i, stage, rec, now, abandoned, locked, chain>>

\* run() is called
FinalizeRun ==
  /\ pc = "wf_run"
  /\ IF cfg.preV26
     THEN FinalizeAttemptBegins
     ELSE /\ pc' = "crashed"      \* throw new Error("V26 bridges are not supported")
          /\ UNCHANGED <<flow, cfg, cycle, i, stage, result, rec, now, call, abandoned,
                         locked, chain, h>>

\* executeWithdrawalFinalize returns status; run() awaits nextExecutionWait
FinalizeReturns(status, r, h1) ==
  /\ pc' = "wf_wait"
  /\ result' = [status |-> status]
  /\ rec' = r
  /\ h' = h1
  /\ call' = NewAttempt(WithdrawalNull)

\* what a rejected promise was rejected with: an Error, as every throw of
\* the program's own code gives, or a reason that is null or undefined,
\* which only a call into a provider can give
ErrorReason == "error"
NullishReason == "nullish"
Reasons == {ErrorReason, NullishReason}

\* utils.ts unwrap(e) in the log line of the catch block
CatchThrows(reason) == reason = NullishReason

\* the catch block throws: executeWithdrawalFinalize rejects with the run as
\* it is, and run(), which awaits it outside any try, ends
FinalizeRejects(r, h1) ==
  /\ pc' = "crashed"
  /\ result' = NoResult
  /\ rec' = r
  /\ h' = [h1 EXCEPT !.escaped = TRUE]
  /\ call' = NewAttempt(WithdrawalNull)

\* the catch block: the log line with unwrap(e), then recordFlowFailure and
\* `return Status.FAIL`
FinalizeCatch(r, h1, reason) ==
  IF CatchThrows(reason)
  THEN FinalizeRejects(r, h1)
  ELSE FinalizeReturns(FAIL, recordFlowFailure(r), h1)

\* nextExecutionWait resolves: the next iteration
FinalizeIntervalDone ==
  /\ pc = "wf_wait"
  /\ cycle < MaxCycles
  /\ FinalizeAttemptBegins

\* getLastExecution returned: up to getCurrentChainTimestamp()
FinalizeExecutionReturned ==
  /\ flow = "withdrawalFinalize"
  /\ pc = "returned"
  /\ pc' = "wf_ts"
  /\ call' = NewAttempt(result)
  /\ h' = [h EXCEPT !.reconciled = TRUE, !.calls = @ \cup {ChainTimeCall}]
  /\ UNCHANGED <<flow, cfg, cycle, i, stage, result, rec, now, abandoned, locked, chain>>

\* getLastExecution rejected
FinalizeExecutionThrew ==
  /\ flow = "withdrawalFinalize"
  /\ pc = "threw"
  /\ \E reason \in Reasons :
       FinalizeCatch(rec, [h EXCEPT !.failed = ReconciliationCall], reason)
  /\ UNCHANGED <<flow, cfg, cycle, i, stage, now, abandoned, locked, chain>>

\* getCurrentChainTimestamp() resolves: up to getLatestFinalizedBlockTimestamp()
FinalizeChainTime ==
  /\ pc = "wf_ts"
  /\ pc' = "wf_fin_ts"
  /\ call' = [call EXCEPT !.blockTimestamp = BlockTimestamp(chain.head)]
  /\ h' = [h EXCEPT !.calls = @ \cup {FinalizedTimeCall}]
  /\ UNCHANGED <<flow, cfg, cycle, i, stage, result, rec, now, abandoned, locked, chain>>

\* getLatestFinalizedBlockTimestamp() resolves: recordFlowStart, the
\* `!execution` branch, the two gauges, up to the await of the first step
FinalizeFinalizedTime ==
  /\ pc = "wf_fin_ts"
  /\ LET finalizedBlockTimestamp == BlockTimestamp(chain.finalized)
         r0 == recordFlowStart(rec, now)
         h0 == [h EXCEPT !.opened = TRUE]
         r1 == [r0 EXCEPT !.timeSinceLastFinalizableWithdrawal =
                             call.blockTimestamp - call.execution.timestampL2,
                          !.timeSinceLastFinalizedBlock =
                             DateNow(now) \div SEC - finalizedBlockTimestamp]
     IN IF NoExecution(call.execution)
        THEN IF recordFlowSkippedThrows(r0)
             THEN FinalizeCatch(r0, h0, ErrorReason)
             ELSE FinalizeReturns(SKIP, recordFlowSkipped(r0, now), h0)
        ELSE IF call.execution = WithdrawalNull
        THEN FinalizeCatch(r0, h0, ErrorReason)  \* execution.l2Receipt of null: TypeError
        ELSE /\ pc' = "wf_params"
             /\ rec' = r1
             /\ call' = [call EXCEPT !.finalizedBlockTimestamp = finalizedBlockTimestamp,
                                     !.wt = NewCall("get_finalization_params", now)]
             /\ h' = [h0 EXCEPT !.calls = @ \cup {ParamsCall}]
             /\ result' = result
  /\ UNCHANGED <<flow, cfg, cycle, i, stage, now, abandoned, locked, chain>>

\* an await of the attempt outside the steps rejects (or unwrap finds no block)
FinalizeReadRejects ==
  /\ pc \in {"wf_ts", "wf_fin_ts", "wf_bridges"}
  /\ \E reason \in Reasons :
       FinalizeCatch(rec, [h EXCEPT !.failed =
          CASE pc = "wf_ts" -> ChainTimeCall
            [] pc = "wf_fin_ts" -> FinalizedTimeCall
            [] OTHER -> BridgesCall], reason)
  /\ UNCHANGED <<flow, cfg, cycle, i, stage, now, abandoned, locked, chain>>

\* the work of get_finalization_params resolves before the timer fired:
\* the sender check, up to getL1BridgeContracts()
FinalizeParamsResolved ==
  /\ pc = "wf_params"
  /\ \E sender \in Senders :
       LET p == Settle(call.wt.promise, Fulfilled)
           r1 == IF Continues(p)
                 THEN stepRecord(rec, "get_finalization_params", call.wt.start, now)
                 ELSE rec
           h1 == [h EXCEPT !.proof = "fulfilled", !.sender = sender]
       IN IF ~Continues(p)
          THEN FinalizeCatch(r1, h1, ErrorReason)
          ELSE IF ~IsBaseToken(sender)
          THEN FinalizeCatch(r1, h1, ErrorReason)  \* "is not a base token withdrawal"
          ELSE /\ pc' = "wf_bridges"
               /\ rec' = r1
               /\ call' = [call EXCEPT !.wt = NoCall]
               /\ h' = [h1 EXCEPT !.calls = @ \cup {BridgesCall}]
               /\ result' = result
  /\ UNCHANGED <<flow, cfg, cycle, i, stage, now, abandoned, locked, chain>>

\* getL1BridgeContracts() resolves: up to the await of the l1_simulation
\* step, whose work runs up to its own first await, getNetwork(): an argument
\* of estimateGas, so estimateGas is not called yet
FinalizeBridgesResolved ==
  /\ pc = "wf_bridges"
  /\ IF cfg.preV26
     THEN /\ pc' = "wf_sim"
          /\ call' = [call EXCEPT !.wt = NewCall("l1_simulation", now)]
          /\ stage' = NetworkAwait
          /\ UNCHANGED <<result, rec, h>>
     ELSE /\ FinalizeCatch(rec, h, ErrorReason)  \* "V26 bridges are not supported"
          /\ stage' = stage
  /\ UNCHANGED <<flow, cfg, cycle, i, now, abandoned, locked, chain>>

\* getNetwork() resolves in the work of the step in flight: estimateGas is
\* called with its chainId
FinalizeNetworkResolved ==
  /\ pc = "wf_sim"
  /\ stage = NetworkAwait
  /\ stage' = EstimateAwait
  /\ h' = [h EXCEPT !.calls = @ \cup {SimulationCall}]
  /\ UNCHANGED <<flow, cfg, pc, cycle, i, result, rec, now, call, abandoned, locked, chain>>

\* the work of l1_simulation resolves before the timer fired: estimateGas
\* answered, recordStepGas, recordFlowSuccess
FinalizeSimulationResolved ==
  /\ pc = "wf_sim"
  /\ stage = EstimateAwait
  /\ stage' = NoAwait
  /\ \E gas \in Gases :
       LET p == Settle(call.wt.promise, Fulfilled)
           r0 == recordStepGas(rec, "l1_simulation", gas)
           r1 == IF Continues(p)
                 THEN stepRecord(r0, "l1_simulation", call.wt.start, now)
                 ELSE r0
           h1 == [h EXCEPT !.simulation = "fulfilled"]
       IN IF ~Continues(p) \/ recordFlowSuccessThrows(r1)
          THEN FinalizeCatch(r1, h1, ErrorReason)
          ELSE FinalizeReturns(OK, recordFlowSuccess(r1, now), h1)
  /\ UNCHANGED <<flow, cfg, cycle, i, now, abandoned, locked, chain>>

\* the work of the step in flight rejects before the timer fired: the await
\* it is suspended in (getNetwork() or estimateGas in l1_simulation) rejects
FinalizeStepRejected ==
  /\ pc \in {"wf_params", "wf_sim"}
  /\ stage' = NoAwait
  /\ LET p == Settle(call.wt.promise, RejectedByWork)
         r1 == IF Continues(p) THEN stepRecord(rec, call.wt.step, call.wt.start, now) ELSE rec
         h1 == IF pc = "wf_params" THEN [h EXCEPT !.proof = "rejected"]
                                   ELSE [h EXCEPT !.simulation = "rejected"]
     IN \E reason \in Reasons : FinalizeCatch(r1, h1, reason)
  /\ UNCHANGED <<flow, cfg, cycle, i, now, abandoned, locked, chain>>

\* the timer of the step in flight fires first: its work is abandoned
FinalizeStepTimedOut ==
  /\ pc \in {"wf_params", "wf_sim"}
  /\ call.wt.timer
  /\ DateNow(now) - call.wt.start >= StepTimeoutMs
  /\ LET p == Settle(call.wt.promise, TimedOut(call.wt.step))
         r1 == IF Continues(p) THEN stepRecord(rec, call.wt.step, call.wt.start, now) ELSE rec
         h1 == IF pc = "wf_params" THEN [h EXCEPT !.proof = "timeout"]
                                   ELSE [h EXCEPT !.simulation = "timeout"]
     IN FinalizeCatch(r1, h1, ErrorReason)   \* the Error of withTimeout
  /\ abandoned' = abandoned (+) SetToBag({Work(call.wt.step,
                                            IF pc = "wf_params" THEN ParamsAwait ELSE stage)})
  /\ stage' = NoAwait
  /\ UNCHANGED <<flow, cfg, cycle, i, now, locked, chain>>

\* An await of abandoned work resolves after the timer fired; the promise of
\* its step is settled already.  Every timed-out stepExecution left one work
\* behind: `abandoned` counts them with the await each is suspended in.  The
\* work of l1_simulation goes on from getNetwork() to estimateGas, and from
\* estimateGas to recordStepGas.
FinalizeLateWork ==
  /\ flow = "withdrawalFinalize"
  /\ \E w \in BagToSet(abandoned) :
       IF w.await = NetworkAwait
       THEN /\ abandoned' = (abandoned (-) SetToBag({w})) (+) SetToBag({Work(w.step, EstimateAwait)})
            /\ h' = [h EXCEPT !.lateCalls = @ \cup {SimulationCall}]
            /\ rec' = rec
       ELSE /\ abandoned' = abandoned (-) SetToBag({w})
            /\ h' = h
            /\ IF w.await = EstimateAwait
               THEN \E gas \in Gases : rec' = recordStepGas(rec, w.step, gas)
               ELSE rec' = rec
  /\ UNCHANGED <<flow, cfg, pc, cycle, i, stage, result, now, call, locked, chain>>

\* the await of abandoned work rejects: the work ends there
FinalizeLateWorkRejected ==
  /\ flow = "withdrawalFinalize"
  /\ \E w \in BagToSet(abandoned) : abandoned' = abandoned (-) SetToBag({w})
  /\ UNCHANGED <<flow, cfg, pc, cycle, i, stage, result, rec, now, call, locked, chain, h>>

\* the clock of this flow: long enough for a second attempt's step to time
\* out after the first attempt's did
FinalizeTick ==
  /\ now < MaxFinalizeNow
  /\ now' = now + 1
  /\ UNCHANGED <<flow, cfg, cycle, pc, i, stage, result, rec, call, abandoned, locked, chain, h>>

FinalizeNext ==
  \/ FinalizeTick
  \/ FinalizeRun
  \/ FinalizeIntervalDone
  \/ WithdrawalQueryCalled
  \/ WithdrawalTopBlock
  \/ WithdrawalLogs
  \/ WithdrawalEventBlock
  \/ WithdrawalEventReceipt
  \/ QueryRejects
  \/ FinalizeExecutionReturned
  \/ FinalizeExecutionThrew
  \/ FinalizeChainTime
  \/ FinalizeFinalizedTime
  \/ FinalizeReadRejects
  \/ FinalizeParamsResolved
  \/ FinalizeBridgesResolved
  \/ FinalizeNetworkResolved
  \/ FinalizeSimulationResolved
  \/ FinalizeStepRejected
  \/ FinalizeStepTimedOut
  \/ FinalizeLateWork
  \/ FinalizeLateWorkRejected

FinalizeSpec == FinalizeInit /\ [][FinalizeNext]_vars

----------------------------------------------------------------------------
(* The requests the L2 flows build: getWithdrawalRequest of                *)
(* WithdrawalBaseFlow and getTxRequest of SimpleTxFlow.  `cfg` is what the *)
(* flow was constructed with, `result` the request built last.             *)

undefined == "undefined"
WalletAddresses == {"0xWallet1", "0xWallet2"}
PaymasterAddresses == {"0xPaymaster1", "0xPaymaster2"}

\* utils.getPaymasterParams(paymasterAddress, {type: "General", innerInput: new Uint8Array()})
getPaymasterParams(paymasterAddress) ==
  [paymaster |-> paymasterAddress, paymasterInput |-> "General()"]

\* a record without fields, to build requests from their optional parts
NoFields == [f \in {} |-> 0]

getWithdrawalRequestZeroValue(walletAddress, paymasterAddress, isZKsyncOS) ==
  [to |-> walletAddress, token |-> "L2_BASE_TOKEN_ADDRESS",
   amount |-> IF paymasterAddress # undefined THEN 0 ELSE 1]
  @@ (IF isZKsyncOS THEN [overrides |-> [gasLimit |-> 1000000, type |-> 2]] ELSE NoFields)
  @@ (IF paymasterAddress # undefined
      THEN [paymasterParams |-> getPaymasterParams(paymasterAddress)]
      ELSE NoFields)

getWithdrawalRequest(walletAddress, paymasterAddress, isZKsyncOS) ==
  LET request ==
        [to |-> walletAddress, token |-> "L2_BASE_TOKEN_ADDRESS", amount |-> 1]
        @@ (IF isZKsyncOS THEN [overrides |-> [gasLimit |-> 1000000, type |-> 2]]
                          ELSE NoFields)
  IN IF paymasterAddress # undefined
     THEN request @@ [paymasterParams |-> getPaymasterParams(paymasterAddress)]
     ELSE request

getTxRequest(walletAddress, paymasterAddress) ==
  IF paymasterAddress # undefined
  THEN [to |-> walletAddress, value |-> 0,
        customData |-> [gasPerPubdata |-> "DEFAULT_GAS_PER_PUBDATA_LIMIT",
                        paymasterParams |-> getPaymasterParams(paymasterAddress)]]
  ELSE [to |-> walletAddress, value |-> 1]

RequestInit ==
  /\ flow \in {"withdrawal", "transfer"}
  /\ cfg \in [walletAddress : WalletAddresses,
              paymasterAddress : {undefined} \cup PaymasterAddresses,
              isZKsyncOS : BOOLEAN]
  /\ flow = "transfer" => ~cfg.isZKsyncOS
  /\ pc = "caller"
  /\ cycle = 0
  /\ i = 0
  /\ stage = 0
  /\ result = NoResult
  /\ rec = NewRecorder
  /\ now = 1
  /\ call = NoCall
  /\ abandoned = {}
  /\ locked = FALSE
  /\ chain = [time |-> 0]
  /\ h = [built |-> <<>>]

\* an attempt of the withdrawal flow builds its request
CallGetWithdrawalRequest ==
  /\ flow = "withdrawal"
  /\ pc = "caller"
  /\ i < MaxInvocations
  /\ i' = i + 1
  /\ result' = getWithdrawalRequest(cfg.walletAddress, cfg.paymasterAddress, cfg.isZKsyncOS)
  /\ h' = [h EXCEPT !.built = Append(@, "getWithdrawalRequest")]
  /\ UNCHANGED <<flow, cfg, pc, cycle, stage, rec, now, call, abandoned, locked, chain>>

\* an attempt of the transfer flow builds its request
CallGetTxRequest ==
  /\ flow = "transfer"
  /\ pc = "caller"
  /\ i < MaxInvocations
  /\ i' = i + 1
  /\ result' = getTxRequest(cfg.walletAddress, cfg.paymasterAddress)
  /\ h' = [h EXCEPT !.built = Append(@, "getTxRequest")]
  /\ UNCHANGED <<flow, cfg, pc, cycle, stage, rec, now, call, abandoned, locked, chain>>

RequestNext ==
  \/ Tick
  \/ CallGetWithdrawalRequest
  \/ CallGetTxRequest

RequestSpec == RequestInit /\ [][RequestNext]_vars

----------------------------------------------------------------------------
(* lock.ts: the Mutex the flows of one wallet share (its source is not in  *)
(* the repository copy; it is modelled from its contract and from the way  *)
(* transfer.ts and main.ts use it).  `locked` is the mutex's flag, `call`  *)
(* its wait queue (the callers suspended in acquire(), oldest first), `pc` *)
(* where each caller is, `result` how each caller's latest withLock        *)
(* settled, `i` the number of acquire() calls made so far, and `cfg` how   *)
(* the callers use the mutex: through withLock only, or through acquire()  *)
(* and release() in any order.                                             *)

Callers == 1..MaxCallers

\* which waiter release() resumes: the position in the queue
NextWaiterNewest(queue) == Len(queue)
NextWaiter(queue) == 1

\* acquire(): the mutex afterwards, and whether the caller goes on at once
acquire(m, c) ==
  IF m.locked
  THEN [locked |-> TRUE, queue |-> Append(m.queue, c), granted |-> FALSE]
  ELSE [locked |-> TRUE, queue |-> m.queue, granted |-> TRUE]

\* release(): fails if the mutex is not locked; else the next waiter is
\* resumed holding the lock, or the lock is freed.  resumed 0: no waiter
releaseThrowsNever(m) == FALSE
releaseThrows(m) == ~m.locked
release(m) ==
  IF releaseThrows(m)
  THEN [locked |-> m.locked, queue |-> m.queue, resumed |-> 0]
  ELSE IF Len(m.queue) > 0
  THEN LET k == NextWaiter(m.queue)
       IN [locked |-> TRUE,
           queue |-> SubSeq(m.queue, 1, k - 1) \o SubSeq(m.queue, k + 1, Len(m.queue)),
           resumed |-> m.queue[k]]
  ELSE [locked |-> FALSE, queue |-> m.queue, resumed |-> 0]

\* withLock(fn): on which exits of fn it calls release()
FnExits == {"returned", "threw"}
withLockReleasesOnReturn(exit) == exit = "returned"
withLockReleases(exit) == TRUE

NewMutexHistory ==
  [ ticket |-> [c \in Callers |-> 0],   \* number of c's latest acquire() call
    done |-> [c \in Callers |-> 0],     \* number of c's latest settled withLock
    entered |-> <<>>,                   \* the calls whose holder went on, in that order
    waited |-> {},                      \* the calls that were suspended in acquire()
    deepest |-> 0,                      \* the longest the wait queue has been
    op |-> "none",                      \* mutex operation called last
    before |-> FALSE,                   \* whether the mutex was locked when it was called
    threw |-> FALSE,                    \* it threw
    calls |-> 0 ]                       \* parity of the number of operations called

MutexInit ==
  /\ flow = "mutex"
  /\ cfg \in [use : {"withLock", "raw"}]
  /\ pc = [c \in Callers |-> "idle"]
  /\ cycle = 0
  /\ i = 0
  /\ stage = 0
  /\ result = [c \in Callers |-> "none"]
  /\ rec = NewRecorder
  /\ now = 1
  /\ call = <<>>
  /\ abandoned = {}
  /\ locked = FALSE
  /\ chain = [time |-> 0, cycleTs |-> Null, lastOnChain |-> 0, last |-> Null, sinceLastDeposit |-> Null]
  /\ h = NewMutexHistory

\* caller c calls acquire(): it goes on holding the lock, or is suspended
Acquires(c, nextPc, h0) ==
  LET m == acquire([locked |-> locked, queue |-> call], c)
      h1 == [h0 EXCEPT !.ticket[c] = i + 1, !.op = "acquire", !.before = locked,
                       !.threw = FALSE, !.calls = 1 - @]
  IN /\ i' = i + 1
     /\ locked' = m.locked
     /\ call' = m.queue
     /\ pc' = [pc EXCEPT ![c] = IF m.granted THEN nextPc ELSE "waiting"]
     /\ h' = IF m.granted
             THEN [h1 EXCEPT !.entered = Append(@, i + 1)]
             ELSE [h1 EXCEPT !.waited = @ \cup {i + 1},
                             !.deepest = Max(@, Len(m.queue))]

\* caller c calls release(); afterPc is where c is once it returned.  The
\* waiter it resumes goes on from its await of acquire()
Releases(c, afterPc, h0) ==
  LET m == release([locked |-> locked, queue |-> call])
      h1 == [h0 EXCEPT !.op = "release", !.before = locked,
                       !.threw = releaseThrows([locked |-> locked, queue |-> call]),
                       !.calls = 1 - @]
  IN /\ locked' = m.locked
     /\ call' = m.queue
     /\ pc' = [d \in Callers |-> IF d = m.resumed THEN "body"
                                  ELSE IF d = c THEN afterPc ELSE pc[d]]
     /\ h' = IF m.resumed # 0 THEN [h1 EXCEPT !.entered = Append(@, h0.ticket[m.resumed])]
                              ELSE h1

\* a flow calls withLock(fn): up to the await of acquire(), or into fn
CallWithLock(c) ==
  /\ cfg.use = "withLock"
  /\ pc[c] = "idle"
  /\ i < MaxLockCalls
  /\ Acquires(c, "body", h)
  /\ UNCHANGED <<flow, cfg, cycle, stage, result, rec, now, abandoned, chain>>

\* fn settles: withLock releases and settles the way fn did
BodyEnds(c) ==
  /\ cfg.use = "withLock"
  /\ pc[c] = "body"
  /\ \E exit \in FnExits :
       /\ result' = [result EXCEPT ![c] = exit]
       /\ IF withLockReleases(exit)
          THEN Releases(c, "idle", [h EXCEPT !.done[c] = h.ticket[c]])
          ELSE /\ pc' = [pc EXCEPT ![c] = "idle"]
               /\ h' = [h EXCEPT !.done[c] = h.ticket[c]]
               /\ UNCHANGED <<locked, call>>
  /\ UNCHANGED <<flow, cfg, cycle, i, stage, rec, now, abandoned, chain>>

\* a caller that is not suspended calls acquire() itself
CallAcquire(c) ==
  /\ cfg.use = "raw"
  /\ pc[c] = "idle"
  /\ i < MaxLockCalls
  /\ Acquires(c, "body", h)
  /\ UNCHANGED <<flow, cfg, cycle, stage, result, rec, now, abandoned, chain>>

\* a caller that is not suspended calls release() itself, holding or not
CallRelease(c) ==
  /\ cfg.use = "raw"
  /\ pc[c] \in {"idle", "body"}
  /\ Releases(c, IF releaseThrows([locked |-> locked, queue |-> call]) THEN pc[c] ELSE "idle", h)
  /\ UNCHANGED <<flow, cfg, cycle, i, stage, result, rec, now, abandoned, chain>>

MutexNext ==
  \/ \E c \in Callers : CallWithLock(c)
  \/ \E c \in Callers : BodyEnds(c)
  \/ \E c \in Callers : CallAcquire(c)
  \/ \E c \in Callers : CallRelease(c)

MutexSpec == MutexInit /\ [][MutexNext]_vars

\* every fn handed to withLock settles: the attempt functions of the flows
\* await nothing but steps under a deadline
MutexLiveSpec == MutexSpec /\ \A c \in Callers : WF_vars(BodyEnds(c))

----------------------------------------------------------------------------
(* main.ts: the flows that sign with WALLET_KEY, run side by side.  The    *)
(* transfer and withdrawal flows send from the account on L2 and are       *)
(* handed `l2WalletLock`; the deposit and deposit-user flows send from the *)
(* account on L1 through `walletDeposit`.  withdrawal.ts is not in the     *)
(* repository copy: its attempt is taken to run under withLock as the      *)
(* transfer's does.  Here `cfg.enabled` is the set of flows switched on,   *)
(* `pc` where each flow's attempt is, `locked` and `call` the flag and the *)
(* wait queue of l2WalletLock, `h.attempts` the attempts each flow began,  *)
(* `abandoned` the bag of flows with a send still unsettled after the      *)
(* attempt that called it returned on its step timer.                      *)

WalletFlows == {"transfer", "withdrawal", "deposit", "depositUser"}

Account(f) == IF f \in {"transfer", "withdrawal"} THEN "L2" ELSE "L1"

UsesLockAll(f) == TRUE

UsesLockWithdrawalOnly(f) == f = "withdrawal"
UsesLock(f) == f \in {"transfer", "withdrawal"}

NewWalletHistory == [ attempts |-> [f \in WalletFlows |-> 0] ]

WalletInit ==
  /\ flow = "wallet"
  /\ cfg \in [enabled : SUBSET WalletFlows \ {{}}]
  /\ pc = [f \in WalletFlows |-> "sleeping"]
  /\ cycle = 0
  /\ i = 0
  /\ stage = 0
  /\ result = [f \in WalletFlows |-> "none"]
  /\ rec = NewRecorder
  /\ now = 1
  /\ call = <<>>
  /\ abandoned = EmptyBag
  /\ locked = FALSE
  /\ chain = [time |-> 0, cycleTs |-> Null, lastOnChain |-> 0, last |-> Null,
              sinceLastDeposit |-> Null]
  /\ h = NewWalletHistory

\* run(): the sleep or the retry delay is over and the next attempt is
\* called, through withLock by the flows that were handed the mutex
WalletAttemptStarts(f) ==
  /\ f \in cfg.enabled
  /\ pc[f] = "sleeping"
  /\ h.attempts[f] < MaxWalletAttempts
  /\ h' = [h EXCEPT !.attempts[f] = @ + 1]
  /\ IF UsesLock(f)
     THEN LET m == acquire([locked |-> locked, queue |-> call], f)
          IN /\ locked' = m.locked
             /\ call' = m.queue
             /\ pc' = [pc EXCEPT ![f] = IF m.granted THEN "estimation" ELSE "waiting"]
     ELSE /\ pc' = [pc EXCEPT ![f] = "estimation"]
          /\ UNCHANGED <<locked, call>>
  /\ UNCHANGED <<flow, cfg, cycle, i, stage, result, rec, now, abandoned, chain>>

\* the attempt reads the account's nonce (the deposit-user flow inside
\* wallet.deposit) and goes on to populate and send
WalletNonceRead(f) ==
  /\ pc[f] = "estimation"
  /\ pc' = [pc EXCEPT ![f] = "populated"]
  /\ UNCHANGED <<flow, cfg, cycle, i, stage, result, rec, now, call, abandoned, locked, chain, h>>

\* the transaction has been sent
WalletSent(f) ==
  /\ pc[f] = "populated"
  /\ pc' = [pc EXCEPT ![f] = "execution"]
  /\ UNCHANGED <<flow, cfg, cycle, i, stage, result, rec, now, call, abandoned, locked, chain, h>>

\* what an attempt of flow f may return from the await it is suspended in:
\* FAIL from any await that rejects or times out, OK once the transaction is
\* mined; executeDepositTx returns SKIP before it reads the nonce, when the
\* fee it was quoted is above the limit
AttemptResults(f, at) ==
  IF at = "execution" THEN {OK, FAIL}
  ELSE IF at = "estimation" /\ f = "depositUser" THEN {FAIL, SKIP}
  ELSE {FAIL}

\* the flows that await their send through stepExecution (transfer.ts
\* 216-220 sendTransaction, deposit.ts 94-98 requestExecute; the withdrawal
\* flow as the transfer); executeDepositTx awaits wallet.deposit itself
SendUnderTimer(f) == f \in {"transfer", "withdrawal", "deposit"}

\* the attempt returns; withLock then releases the mutex.  When it returns
\* because the timer of the send step fired, withTimeout does not cancel the
\* send: the transaction built on the nonce read is still to be sent
WalletAttemptReturns(f) ==
  /\ pc[f] \in {"estimation", "populated", "execution"}
  /\ \E st \in AttemptResults(f, pc[f]), sendTimedOut \in BOOLEAN :
       /\ sendTimedOut => (pc[f] = "populated" /\ SendUnderTimer(f))
       /\ result' = [result EXCEPT ![f] = st]
       /\ abandoned' = IF sendTimedOut THEN abandoned (+) SetToBag({f}) ELSE abandoned
  /\ IF UsesLock(f)
     THEN LET m == release([locked |-> locked, queue |-> call])
          IN /\ locked' = m.locked
             /\ call' = m.queue
             /\ pc' = [g \in WalletFlows |->
                         IF Len(m.queue) < Len(call) /\ g = m.resumed THEN "estimation"
                         ELSE IF g = f THEN "sleeping" ELSE pc[g]]
     ELSE /\ pc' = [pc EXCEPT ![f] = "sleeping"]
          /\ UNCHANGED <<locked, call>>
  /\ UNCHANGED <<flow, cfg, cycle, i, stage, rec, now, chain, h>>

\* a send left behind by a timed-out step settles: the transaction is sent,
\* or the call rejects
WalletLateSend(f) ==
  /\ BagIn(f, abandoned)
  /\ abandoned' = abandoned (-) SetToBag({f})
  /\ UNCHANGED <<flow, cfg, pc, cycle, i, stage, result, rec, now, call, locked, chain, h>>

WalletNext ==
  \/ \E f \in WalletFlows : WalletAttemptStarts(f)
  \/ \E f \in WalletFlows : WalletNonceRead(f)
  \/ \E f \in WalletFlows : WalletSent(f)
  \/ \E f \in WalletFlows : WalletAttemptReturns(f)
  \/ \E f \in WalletFlows : WalletLateSend(f)

WalletSpec == WalletInit /\ [][WalletNext]_vars

\* the flows of the L2 account on their own: those of the L1 account neither
\* read nor write l2WalletLock
WalletLiveInit == WalletInit /\ cfg.enabled \subseteq {f \in WalletFlows : Account(f) = "L2"}

\* every await of the transfer attempt is a stepExecution with a timeout:
\* the attempt returns once its steps have resolved, rejected or timed out
WalletLiveSpec ==
  WalletLiveInit /\ [][WalletNext]_vars /\ WF_vars(WalletAttemptReturns("transfer"))

----------------------------------------------------------------------------
(* DepositUserFlow.run() and executeDepositTx() once more, with the        *)
(* trigger delay and the retry limit drawn at start-up and a history of    *)
(* what every cycle read and did.  `chain.time` is the L1 chain time,      *)
(* `chain.cycleTs` the `currentBlockchainTimestamp` of the cycle,          *)
(* `chain.lastOnChain` the field lastOnChainOperationTimestamp; `i` is     *)
(* `attempt`, `stage` the await executeDepositTx() is suspended in.        *)

\* `timeSince * SEC > this.txTriggerDelayMs`
ExceedsDelayOrEquals(timeSince, txTriggerDelayMs) == timeSince * SEC >= txTriggerDelayMs
ExceedsDelay(timeSince, txTriggerDelayMs) == timeSince * SEC > txTriggerDelayMs

\* `currentBlockchainTimestamp - Math.max(lastOurExecution.timestampL1, this.lastOnChainOperationTimestamp)`
TimeSinceLastOurOnChain(currentBlockchainTimestamp, timestampL1, lastOnChainOperationTimestamp) ==
  currentBlockchainTimestamp - timestampL1
TimeSinceLastOurDeposit(currentBlockchainTimestamp, timestampL1, lastOnChainOperationTimestamp) ==
  currentBlockchainTimestamp - Max(timestampL1, lastOnChainOperationTimestamp)

\* `if (watchdogTxResult.status == null) throw`
JustExecutedNotFoundNever(res) == FALSE
JustExecutedNotFound(res) == res.status = "null"

\* what getLastExecution can return at chain time T (one representative gas
\* amount and price; an executed deposit executes on L2 in its L1 second)
TriggerExecutions(T) ==
  {Unknown}
  \cup { [ status |-> FAIL, timestampL1 |-> t1, timestampL2 |-> Null, secSinceL1Deposit |-> T - t1,
           l1Gas |-> 1, l1GasPrice |-> 1, l2Gas |-> Null, l2GasPrice |-> Null ] : t1 \in 0..T }
  \cup { [ status |-> OK, timestampL1 |-> t1, timestampL2 |-> t1, secSinceL1Deposit |-> T - t1,
           l1Gas |-> 1, l1GasPrice |-> 1, l2Gas |-> 1, l2GasPrice |-> 1 ] : t1 \in 0..T }

\* ... and after a deposit called at chain time t0 was mined: the window of
\* the log query may miss it, what it finds is no older than t0
JustExecuted(t0, T) == {res \in TriggerExecutions(T) : res.status = "null" \/ res.timestampL1 >= t0}

\* what a cycle saw, as the history keeps it: the most recent deposit from
\* any address against the chain time ts the cycle read ...
SomeSeen(res, ts, delaySec) ==
  IF res.status = OK
  THEN IF ts - res.timestampL1 <= delaySec THEN "recentOK" ELSE "agedOK"
  ELSE IF res.status = FAIL THEN "failed" ELSE "none"

\* ... and whether ts is more than the delay after the later of the
\* watchdog's own latest deposit and the recorded start of its latest attempt
OurSeen(res, ts, lastOp, delaySec) ==
  IF ts - (IF res.timestampL1 >= lastOp THEN res.timestampL1 ELSE lastOp) > delaySec
  THEN "due" ELSE "notDue"

NewTriggerHistory ==
  [ some |-> "unread",       \* SomeSeen of the someDepositResult of this cycle
    our |-> "unread",        \* OurSeen of the lastOurExecution of this cycle
    attempted |-> FALSE,     \* executeDepositTx() was called in this cycle
    submitted |-> FALSE,     \* wallet.deposit() was called in this cycle
    startedAt |-> Null,      \* chain time when the attempt in progress was called
    notFound |-> FALSE,      \* the deposit of the attempt that returned last in this
                             \* cycle was mined and then not found
    cycleFails |-> 0,        \* attempts of this cycle that returned FAIL
    negAge |-> FALSE,        \* an age this cycle computed from its chain-time reading
                             \* was below zero
    fails |-> [t \in 0..MaxL1Time |-> 0] ]  \* attempts called at chain time t that returned FAIL

TriggerInit ==
  /\ flow = "depositUser"
  /\ cfg \in [retryLimit : 0..MaxTriggerRetries, triggerDelay : 0..MaxTriggerDelay]
  /\ pc = "start"
  /\ cycle = 0
  /\ i = 0
  /\ stage = 0
  /\ result = "none"
  /\ rec = NewRecorder
  /\ now = 1
  /\ call = NoCall
  /\ abandoned = {}
  /\ locked = FALSE
  /\ chain = [time |-> 0, cycleTs |-> Null, lastOnChain |-> 0, last |-> Null, sinceLastDeposit |-> Null]
  /\ h = NewTriggerHistory

TxTriggerDelayMs == cfg.triggerDelay * SEC

\* the L1 chain produces a block; its time is observable only through the
\* reads of the flow, so blocks are mined where a read is pending
L1BlockMined ==
  /\ \/ pc \in {"du_ts", "du_some", "du_our"}
     \/ pc = "du_tx" /\ stage \in {1, 7}
  /\ chain.time < MaxL1Time
  /\ chain' = [chain EXCEPT !.time = @ + 1]
  /\ UNCHANGED <<flow, cfg, cycle, pc, i, stage, result, rec, now, call, abandoned, locked, h>>

\* first cycle, and every cycle after nextExecutionWait
TriggerCycle ==
  /\ pc \in {"start", "cycle_wait"}
  /\ cycle < MaxTriggerCycles
  /\ cycle' = cycle + 1
  /\ pc' = "du_ts"           \* awaiting getCurrentChainTimestamp()
  /\ result' = "none"
  /\ h' = [h EXCEPT !.some = "unread", !.our = "unread", !.attempted = FALSE, !.cycleFails = 0,
                    !.negAge = FALSE,
                    !.submitted = FALSE, !.notFound = FALSE]
  /\ UNCHANGED <<flow, cfg, i, stage, rec, now, call, abandoned, locked, chain>>

TriggerTsResolved ==
  /\ pc = "du_ts"
  /\ chain' = [chain EXCEPT !.cycleTs = chain.time]
  /\ pc' = "du_some"         \* awaiting getLastExecution(void 0)
  /\ UNCHANGED <<flow, cfg, cycle, i, stage, result, rec, now, call, abandoned, locked, h>>

TriggerSomeResolved ==
  /\ pc = "du_some"
  /\ \E someDepositResult \in TriggerExecutions(chain.time) :
       LET timeSinceLastDeposit == chain.cycleTs - someDepositResult.timestampL1
       IN /\ h' = [h EXCEPT !.some = SomeSeen(someDepositResult, chain.cycleTs, cfg.triggerDelay),
                            !.negAge = someDepositResult.status = OK /\ timeSinceLastDeposit < 0]
          /\ IF someDepositResult.status = OK
             THEN /\ rec' = recordDepositResult(rec, someDepositResult)
                  /\ chain' = recordDepositResultGauge(chain, someDepositResult)
                  /\ pc' = IF ExceedsDelay(timeSinceLastDeposit, TxTriggerDelayMs)
                           THEN "du_our"     \* awaiting getLastExecution(wallet.address)
                           ELSE "cycle_wait"
             ELSE /\ pc' = "du_our"
                  /\ UNCHANGED <<rec, chain>>
  /\ UNCHANGED <<flow, cfg, cycle, i, stage, result, now, call, abandoned, locked>>

\* executeDepositTx() is called: up to its first await
TriggerBeginTx(k, h0) ==
  /\ i' = k
  /\ pc' = "du_tx"
  /\ stage' = 1              \* awaiting getCurrentChainTimestamp()
  /\ h' = [h0 EXCEPT !.attempted = TRUE, !.startedAt = chain.time]

TriggerOurResolved ==
  /\ pc = "du_our"
  /\ \E lastOurExecution \in TriggerExecutions(chain.time) :
       LET timeSinceLastOurDeposit ==
             TimeSinceLastOurDeposit(chain.cycleTs, lastOurExecution.timestampL1, chain.lastOnChain)
           h1 == [h EXCEPT !.our = OurSeen(lastOurExecution, chain.cycleTs, chain.lastOnChain,
                                           cfg.triggerDelay),
                           !.negAge = @ \/ timeSinceLastOurDeposit < 0]
       IN IF ExceedsDelay(timeSinceLastOurDeposit, TxTriggerDelayMs)
          THEN IF LoopContinues(0, cfg.retryLimit)
               THEN /\ TriggerBeginTx(0, h1)
                    /\ UNCHANGED <<rec, chain>>
               ELSE /\ pc' = "cycle_wait"
                    /\ i' = 0
                    /\ h' = h1
                    /\ UNCHANGED <<stage, rec, chain>>
          ELSE /\ pc' = "cycle_wait"
               /\ h' = h1
               /\ IF lastOurExecution.status # "null"
                  THEN /\ rec' = recordDepositResult(rec, lastOurExecution)
                       /\ chain' = recordDepositResultGauge(chain, lastOurExecution)
                  ELSE UNCHANGED <<rec, chain>>
               /\ UNCHANGED <<i, stage>>
  /\ UNCHANGED <<flow, cfg, cycle, result, now, call, abandoned, locked>>

\* executeDepositTx() returned res: the switch, the break test and the loop
\* test of run(), up to its next await
TriggerTxReturns(res, r, c, h0) ==
  LET h1 == IF res = FAIL
            THEN [h0 EXCEPT !.fails[h0.startedAt] = @ + 1, !.startedAt = Null,
                            !.cycleFails = @ + 1]
            ELSE [h0 EXCEPT !.startedAt = Null]
      attempt == IF DepositUserCounts(res) THEN i + 1 ELSE i
  IN /\ rec' = r
     /\ result' = res
     /\ chain' = c
     /\ IF DepositUserCounts(res)
        THEN /\ pc' = "retry_wait"       \* awaiting timeoutPromise(DEPOSIT_RETRY_INTERVAL)
             /\ i' = attempt
             /\ stage' = 0
             /\ h' = h1
        ELSE IF DepositUserBreaks(res) \/ ~LoopContinues(attempt, cfg.retryLimit)
        THEN /\ pc' = "cycle_wait"
             /\ i' = attempt
             /\ stage' = 0
             /\ h' = h1
        ELSE TriggerBeginTx(attempt, h1)

\* the awaited call of executeDepositTx() resolves
TriggerTxResolved ==
  /\ pc = "du_tx"
  /\ IF stage = 1
     THEN /\ chain' = [chain EXCEPT !.lastOnChain = chain.time]
          /\ stage' = 2          \* awaiting getFeeData()
          /\ UNCHANGED <<pc, i, result, rec, h>>
     ELSE IF stage = 2
     THEN \E maxFeePerGas \in {GasPriceLimit, GasPriceLimit + 1} :
            IF maxFeePerGas > GasPriceLimit
            THEN TriggerTxReturns(SKIP, manualRecordStatus(rec, SKIP, 0), chain,
                                  [h EXCEPT !.notFound = FALSE])
            ELSE /\ stage' = 3     \* awaiting wallet.deposit(...)
                 /\ h' = [h EXCEPT !.submitted = TRUE]
                 /\ UNCHANGED <<pc, i, result, rec, chain>>
     ELSE IF stage < 7           \* waitL1Commit, getMainContractAddress, wait
     THEN /\ stage' = stage + 1
          /\ UNCHANGED <<pc, i, result, rec, chain, h>>
     ELSE \E watchdogTxResult \in JustExecuted(h.startedAt, chain.time) :
            IF JustExecutedNotFound(watchdogTxResult)
            THEN TriggerTxReturns(FAIL, manualRecordStatus(rec, FAIL, 0), chain,
                                  [h EXCEPT !.notFound = TRUE])
            ELSE TriggerTxReturns(watchdogTxResult.status,
                                  recordDepositResult(rec, watchdogTxResult),
                                  recordDepositResultGauge(chain, watchdogTxResult),
                                  [h EXCEPT !.notFound = watchdogTxResult.status = "null"])
  /\ UNCHANGED <<flow, cfg, cycle, now, call, abandoned, locked>>

\* it rejects: the catch block of executeDepositTx()
TriggerTxThrows ==
  /\ pc = "du_tx"
  /\ TriggerTxReturns(FAIL, manualRecordStatus(rec, FAIL, 0), chain, [h EXCEPT !.notFound = FALSE])
  /\ UNCHANGED <<flow, cfg, cycle, now, call, abandoned, locked>>

\* the retry interval elapsed: `if (result === Status.OK) break` and the loop test
TriggerRetryWaitDone ==
  /\ pc = "retry_wait"
  /\ IF DepositUserBreaks(result) \/ ~LoopContinues(i, cfg.retryLimit)
     THEN /\ pc' = "cycle_wait"
          /\ UNCHANGED <<i, stage, h>>
     ELSE TriggerBeginTx(i, h)
  /\ UNCHANGED <<flow, cfg, cycle, result, rec, now, call, abandoned, locked, chain>>

\* an await of run() outside any try block rejects: run() itself rejects
TriggerRunThrows ==
  /\ pc \in {"du_ts", "du_some", "du_our"}
  /\ pc' = "crashed"
  /\ UNCHANGED <<flow, cfg, cycle, i, stage, result, rec, now, call, abandoned, locked, chain, h>>

TriggerNext ==
  \/ L1BlockMined
  \/ TriggerCycle
  \/ TriggerTsResolved
  \/ TriggerSomeResolved
  \/ TriggerOurResolved
  \/ TriggerTxResolved
  \/ TriggerTxThrows
  \/ TriggerRetryWaitDone
  \/ TriggerRunThrows

TriggerSpec == TriggerInit /\ [][TriggerNext]_vars

----------------------------------------------------------------------------
(* main(): the flows are constructed and their run() called one after the  *)
(* other (non-ZKsync-OS branch).  `cfg.enabled` holds the flows whose      *)
(* FLOW_*_ENABLE test is true, `stage` is main's position, `i` is          *)
(* enabledFlows, `pc[f]` is flow f's run(), `cycle[f]` its cycles,         *)
(* `result` the exit status of the process (Null while it runs) and        *)
(* `h.pending` says that a rejected promise nobody handles is waiting for  *)
(* the runtime to notice it.                                               *)

MainFlows == <<"transfer", "deposit", "depositUser", "withdrawal",
               "withdrawalFinalize", "rpcTest", "settlement">>
MainFlowSet == {MainFlows[k] : k \in 1..Len(MainFlows)}

\* positions of main(): awaiting getBalance, then flow k of MainFlows
AtBalance == 0
AtCount == Len(MainFlows) + 1
Returned == Len(MainFlows) + 2
Rejected == Len(MainFlows) + 3

\* the awaits that precede `new DepositFlow` / `new DepositUserFlow`
DepositSetup ==
  /\ stage = 2
  /\ "deposit" \in cfg.enabled \/ "depositUser" \in cfg.enabled

\* main() is suspended, or over: the event loop runs the flows
MainAtAwait == stage = AtBalance \/ DepositSetup \/ stage >= Returned

\* WithdrawalFinalizeFlow.run(): `if (!PRE_V26_BRIDGES) throw`
RunThrowsAtStart(f) == f = "withdrawalFinalize" /\ ~cfg.preV26

\* run() methods with an await that can reject outside every try block: the
\* reads of deposit.ts 149-150 and depositUsers.ts 230-248, and
\* executeWithdrawalFinalize itself (part_002 111), which rejects when its
\* catch block throws on unwrap(e) of an undefined or null reason (97)
RunCanReject(f) == f \in {"deposit", "depositUser", "withdrawalFinalize"}

\* what the runtime does with a rejection nobody handles
UnhandledModes == {"throw", "warn"}

\* the flows whose block in main() reads an environment variable through
\* unwrap(), which throws when the variable is unset; the RPC test flow
\* reads its interval with a default
ReadsRequiredEnv == MainFlowSet \ {"rpcTest"}

\* `+unwrap(process.env.FLOW_..._INTERVAL)` among the arguments of `new
\* ...Flow(...)` throws: the constructor and run() are never called
ArgsThrow(f) == f \in cfg.unset

MainInit ==
  /\ flow = "main"
  /\ cfg \in [enabled : SUBSET MainFlowSet, preV26 : BOOLEAN,
              unhandled : UnhandledModes, unset : SUBSET ReadsRequiredEnv]
  /\ pc = [f \in MainFlowSet |-> "off"]
  /\ cycle = [f \in MainFlowSet |-> 0]
  /\ i = 0
  /\ stage = AtBalance
  /\ result = Null
  /\ rec = NewRecorder
  /\ now = 1
  /\ call = <<>>
  /\ abandoned = {}
  /\ locked = FALSE
  /\ chain = [time |-> 0, cycleTs |-> Null, lastOnChain |-> 0, last |-> Null,
              sinceLastDeposit |-> Null]
  /\ h = [pending |-> FALSE]

\* `await l2Provider.getBalance(wallet.address)` is answered
MainBalanceResolved ==
  /\ result = Null
  /\ stage = AtBalance
  /\ stage' = 1
  /\ UNCHANGED <<flow, cfg, pc, cycle, i, result, rec, now, call, abandoned, locked, chain, h>>

\* one `if (process.env.FLOW_..._ENABLE ...) { new ...Flow(...).run();
\* enabledFlows++; }`; run() is executed up to its first await.  When an
\* argument of the block throws, main() rejects there: the flow is not
\* started, nothing after it runs, and `main();` has no catch
MainStartFlow ==
  /\ result = Null
  /\ stage \in 1..Len(MainFlows)
  /\ LET f == MainFlows[stage]
     IN IF f \in cfg.enabled /\ ArgsThrow(f)
        THEN /\ stage' = Rejected
             /\ h' = [h EXCEPT !.pending = TRUE]
             /\ UNCHANGED <<pc, i>>
        ELSE IF f \in cfg.enabled
        THEN /\ pc' = [pc EXCEPT ![f] = IF RunThrowsAtStart(f) THEN "rejected"
                                        ELSE "looping"]
             /\ i' = i + 1
             /\ h' = [h EXCEPT !.pending = @ \/ RunThrowsAtStart(f)]
             /\ stage' = stage + 1
        ELSE /\ stage' = stage + 1
             /\ UNCHANGED <<pc, i, h>>
  /\ UNCHANGED <<flow, cfg, cycle, result, rec, now, call, abandoned, locked, chain>>

\* `if (enabledFlows === 0) { ...; process.exit(1); }`
MainCounts ==
  /\ result = Null
  /\ stage = AtCount
  /\ stage' = Returned
  /\ result' = IF i = 0 THEN 1 ELSE result
  /\ UNCHANGED <<flow, cfg, pc, cycle, i, rec, now, call, abandoned, locked, chain, h>>

\* an await of main() rejects: main() is not inside any try block and
\* `main();` has no catch
MainAwaitRejects ==
  /\ result = Null
  /\ stage = AtBalance \/ DepositSetup
  /\ stage' = Rejected
  /\ h' = [h EXCEPT !.pending = TRUE]
  /\ UNCHANGED <<flow, cfg, pc, cycle, i, result, rec, now, call, abandoned, locked, chain>>

\* one turn of `while (true)` of a flow
FlowCycle(f) ==
  /\ result = Null
  /\ MainAtAwait
  /\ pc[f] = "looping"
  /\ cycle[f] < MaxMainCycles
  /\ cycle' = [cycle EXCEPT ![f] = @ + 1]
  /\ UNCHANGED <<flow, cfg, pc, i, stage, result, rec, now, call, abandoned, locked, chain, h>>

\* an await of run() outside any try block rejects
FlowRunRejects(f) ==
  /\ result = Null
  /\ MainAtAwait
  /\ pc[f] = "looping"
  /\ RunCanReject(f)
  /\ pc' = [pc EXCEPT ![f] = "rejected"]
  /\ h' = [h EXCEPT !.pending = TRUE]
  /\ UNCHANGED <<flow, cfg, cycle, i, stage, result, rec, now, call, abandoned, locked, chain>>

\* the runtime finds the rejected promise of a `.run()` or of `main()`
\* without a handler: it ends the process with status 1, or only warns
UnhandledRejection ==
  /\ result = Null
  /\ MainAtAwait
  /\ h.pending
  /\ h' = [h EXCEPT !.pending = FALSE]
  /\ result' = IF cfg.unhandled = "throw" THEN 1 ELSE result
  /\ UNCHANGED <<flow, cfg, pc, cycle, i, stage, rec, now, call, abandoned, locked, chain>>

MainNext ==
  \/ MainBalanceResolved
  \/ MainStartFlow
  \/ MainCounts
  \/ MainAwaitRejects
  \/ \E f \in MainFlowSet : FlowCycle(f)
  \/ \E f \in MainFlowSet : FlowRunRejects(f)
  \/ UnhandledRejection

MainSpec == MainInit /\ [][MainNext]_vars

----------------------------------------------------------------------------
(* DepositFlow.run() from process start to its first attempt.  `now` is    *)
(* the clock of the process, in seconds, which its timers follow;          *)
(* `chain.time` is the timestamp of the latest L1 block, which the block   *)
(* producers set: the two advance independently.  `cfg.intervalSec` is     *)
(* intervalMs / SEC; `chain.last` is lastExecution.                        *)

\* block timestamps are dates of today: older than no interval of the flow
Genesis == MaxStartupInterval + 1

\* deposit.ts: `if (timeSinceLastDeposit < this.intervalMs / SEC)`
NeedsStartupWaitNever(timeSinceLastDeposit, intervalMs) == FALSE
NeedsStartupWait(timeSinceLastDeposit, intervalMs) ==
  timeSinceLastDeposit * SEC < intervalMs

\* deposit.ts: `const waitTime = this.intervalMs - timeSinceLastDeposit * SEC`
StartupWaitTime(timeSinceLastDeposit, intervalMs) ==
  intervalMs - timeSinceLastDeposit * SEC

\* getLastExecution: Unknown, or the wallet's latest deposit in the logs
StartupExecutions(T) ==
  {[status |-> "null", timestampL1 |-> 0]}
  \cup [status : StatusNoSkip, timestampL1 : Genesis..T]

NewStartupHistory ==
  [ found |-> FALSE,         \* getLastExecution returned a deposit
    last |-> 0,              \* its timestampL1
    readTs |-> Null,         \* currentBlockchainTimestamp as run() read it
    waited |-> FALSE,        \* the start-up timer was set
    waitTime |-> 0,          \* for this many milliseconds
    waitFrom |-> 0,          \* at this time of the process clock
    startedAt |-> Null ]     \* process clock when the first attempt began

StartupInit ==
  /\ flow = "deposit"
  /\ cfg \in [intervalSec : 1..MaxStartupInterval]
  /\ pc = "dep_last"         \* awaiting getLastExecution(this.wallet.address)
  /\ cycle = 0
  /\ i = 0
  /\ stage = 0
  /\ result = "none"
  /\ rec = NewRecorder
  /\ now = 1
  /\ call = <<>>
  /\ abandoned = {}
  /\ locked = FALSE
  /\ \E t \in Genesis..(Genesis + MaxStartupChain) :
       chain = [time |-> t, cycleTs |-> Null, lastOnChain |-> 0, last |-> Null,
                sinceLastDeposit |-> Null]
  /\ h = NewStartupHistory

\* one second passes
StartupTick ==
  /\ pc \in {"dep_last", "dep_ts", "startup_wait"}
  /\ now < 1 + MaxStartupClock
  /\ now' = now + 1
  /\ UNCHANGED <<flow, cfg, pc, cycle, i, stage, result, rec, call, abandoned, locked, chain, h>>

\* L1 produces a block, stamped by its producer with a later time than its
\* parent's
StartupBlockMined ==
  /\ pc \in {"dep_last", "dep_ts", "startup_wait"}
  /\ \E t \in (chain.time + 1)..(Genesis + MaxStartupChain) :
       chain' = [chain EXCEPT !.time = t]
  /\ UNCHANGED <<flow, cfg, pc, cycle, i, stage, result, rec, now, call, abandoned, locked, h>>

StartupLastResolved ==
  /\ pc = "dep_last"
  /\ \E res \in StartupExecutions(chain.time) :
       /\ chain' = [chain EXCEPT !.last = res]
       /\ h' = [h EXCEPT !.found = res.status # "null", !.last = res.timestampL1]
  /\ pc' = "dep_ts"          \* awaiting getCurrentChainTimestamp()
  /\ UNCHANGED <<flow, cfg, cycle, i, stage, result, rec, now, call, abandoned, locked>>

\* the chain time is read: the previous status is published and the first
\* attempt starts, or the start-up timer is set
StartupTsResolved ==
  /\ pc = "dep_ts"
  /\ LET currentBlockchainTimestamp == chain.time
         timeSinceLastDeposit == currentBlockchainTimestamp - chain.last.timestampL1
         intervalMs == cfg.intervalSec * SEC
     IN /\ rec' = IF chain.last.status # "null"
                  THEN recordPreviousExecutionStatus(rec, chain.last.status)
                  ELSE rec
        /\ IF NeedsStartupWait(timeSinceLastDeposit, intervalMs)
           THEN /\ pc' = "startup_wait"
                /\ h' = [h EXCEPT !.readTs = currentBlockchainTimestamp,
                                  !.waited = TRUE,
                                  !.waitTime = StartupWaitTime(timeSinceLastDeposit, intervalMs),
                                  !.waitFrom = now]
           ELSE /\ pc' = "attempt"
                /\ h' = [h EXCEPT !.readTs = currentBlockchainTimestamp,
                                  !.startedAt = now]
  /\ UNCHANGED <<flow, cfg, cycle, i, stage, result, now, call, abandoned, locked, chain>>

\* `await new Promise((resolve) => setTimeout(resolve, waitTime))` is over
StartupWaitDone ==
  /\ pc = "startup_wait"
  /\ (now - h.waitFrom) * SEC >= h.waitTime
  /\ pc' = "attempt"
  /\ h' = [h EXCEPT !.startedAt = now]
  /\ UNCHANGED <<flow, cfg, cycle, i, stage, result, rec, now, call, abandoned, locked, chain>>

\* one of the two reads rejects: run() rejects before any attempt
StartupRunThrows ==
  /\ pc \in {"dep_last", "dep_ts"}
  /\ pc' = "crashed"
  /\ UNCHANGED <<flow, cfg, cycle, i, stage, result, rec, now, call, abandoned, locked, chain, h>>

StartupNext ==
  \/ StartupTick
  \/ StartupBlockMined
  \/ StartupLastResolved
  \/ StartupTsResolved
  \/ StartupWaitDone
  \/ StartupRunThrows

StartupSpec == StartupInit /\ [][StartupNext]_vars

----------------------------------------------------------------------------
(* SettlementFlow.run(): one stepExecution per cycle, whose work reads the *)
(* finalized L2 block, the block after it and the latest L1 block.         *)
(* `stage` is the await the work of the cycle is suspended in (1..3, 0     *)
(* when it is over), `chain.unsettledTs` the timestamp of the first        *)
(* unsettled block it read, `chain.gauge` the watchdog_settlement_age      *)
(* gauge, `abandoned` the works whose timer fired before they were over,   *)
(* `result` what the cycle recorded, `cfg.deadline` settlementDeadlineSec. *)

SettlementStep == "settlement"

NewSettlementRecorder ==
  [ startTime |-> Null,
    lastStepLatency |-> Null,
    lastExecutionTotalLatency |-> Null,
    status |-> "unset",
    latencyTotal |-> Null,
    latency |-> [s \in {SettlementStep} |-> Null],
    stepTimestamp |-> [s \in {SettlementStep} |-> Null],
    stepGas |-> [s \in {SettlementStep} |-> Null],
    stepGasPrice |-> [s \in {SettlementStep} |-> Null],
    stepGasCost |-> [s \in {SettlementStep} |-> Null] ]

\* what a getBlock call is answered with: a block, null, or a rejection
BlockAnswers ==
  [kind : {"null", "rejects"}, timestamp : {0}]
  \cup [kind : {"block"}, timestamp : 0..MaxSettleTime]

\* `if (settlementAgeSec > this.settlementDeadlineSec) throw`
ExceedsDeadlineOrEquals(settlementAgeSec, settlementDeadlineSec) ==
  settlementAgeSec >= settlementDeadlineSec
ExceedsDeadline(settlementAgeSec, settlementDeadlineSec) ==
  settlementAgeSec > settlementDeadlineSec

UnsetGauge == [set |-> FALSE, value |-> 0]
SetGauge(v) == [set |-> TRUE, value |-> v]

\* fn of the stepExecution, resumed at await number st by answer a, having
\* read the first unsettled block's timestamp ts: where it goes on, what it
\* writes to the gauge, and how it ends if it ends
SettlementWork(st, ts, a, settlementDeadlineSec) ==
  LET on(next, t) == [outcome |-> "pending", cause |-> "none", stage |-> next, ts |-> t,
                      gauge |-> UnsetGauge]
      ends(o, c, g) == [outcome |-> o, cause |-> c, stage |-> 0, ts |-> Null, gauge |-> g]
  IN IF a.kind = "rejects" THEN ends("threw", "rpc", UnsetGauge)
     ELSE IF st = 1
     THEN IF a.kind = "null" THEN ends("threw", "noFinalized", UnsetGauge)
          ELSE on(2, Null)
     ELSE IF st = 2
     THEN IF a.kind = "null" THEN ends("resolved", "none", SetGauge(0))
          ELSE on(3, a.timestamp)
     ELSE IF a.kind = "null" THEN ends("threw", "noL1", UnsetGauge)
          ELSE LET settlementAgeSec == a.timestamp - ts
               IN IF ExceedsDeadline(settlementAgeSec, settlementDeadlineSec)
                  THEN ends("threw", "deadline", SetGauge(settlementAgeSec))
                  ELSE ends("resolved", "none", SetGauge(settlementAgeSec))

NewSettlementHistory ==
  [ cause |-> "none",        \* why the work of this cycle threw, or "timeout"
    unsettled |-> "unread",  \* whether the work of this cycle found an unsettled block
    aged |-> FALSE,          \* the work of this cycle computed settlementAgeSec
    age |-> 0,               \* ... and its value
    wrote |-> UnsetGauge ]   \* what the work of this cycle wrote to the gauge

SettlementInit ==
  /\ flow = "settlement"
  /\ cfg \in [deadline : 0..MaxDeadline]
  /\ pc = "start"
  /\ cycle = 0
  /\ i = 0
  /\ stage = 0
  /\ result = "none"
  /\ rec = NewSettlementRecorder
  /\ now = 1
  /\ call = NoCall
  /\ abandoned = EmptyBag
  /\ locked = FALSE
  /\ chain = [unsettledTs |-> Null, gauge |-> UnsetGauge]
  /\ h = NewSettlementHistory

SettlementTick ==
  /\ now < MaxNow
  /\ now' = now + 1
  /\ UNCHANGED <<flow, cfg, cycle, pc, i, stage, result, rec, call, abandoned, locked, chain, h>>

\* a turn of `while (true)`: nextExecutionWait is armed, the flow start is
\* recorded and stepExecution starts the work, up to its first await
SettlementCycle ==
  /\ pc \in {"start", "cycle_wait"}
  /\ cycle < MaxSettleCycles
  /\ cycle' = cycle + 1
  /\ rec' = recordFlowStart(rec, now)
  /\ call' = NewCall(SettlementStep, now)
  /\ stage' = 1
  /\ pc' = "step"
  /\ result' = "none"
  /\ chain' = [chain EXCEPT !.unsettledTs = Null]
  /\ h' = NewSettlementHistory
  /\ UNCHANGED <<flow, cfg, i, now, abandoned, locked>>

\* the await of the work is answered before the timer fired
SettlementWorkResumes ==
  /\ pc = "step"
  /\ \E a \in BlockAnswers :
       LET w == SettlementWork(stage, chain.unsettledTs, a, cfg.deadline)
           p == Settle(call.promise, IF w.outcome = "resolved" THEN Fulfilled ELSE RejectedByWork)
           h1 == [h EXCEPT !.cause = w.cause,
                           !.unsettled = IF stage = 2 /\ a.kind # "rejects"
                                         THEN (IF a.kind = "null" THEN "none" ELSE "some")
                                         ELSE @,
                           !.aged = @ \/ (stage = 3 /\ a.kind = "block"),
                           !.age = IF stage = 3 /\ a.kind = "block"
                                   THEN a.timestamp - chain.unsettledTs ELSE @,
                           !.wrote = IF w.gauge.set THEN w.gauge ELSE @]
           g == IF w.gauge.set THEN w.gauge ELSE chain.gauge
       IN /\ h' = h1
          /\ stage' = w.stage
          /\ chain' = [unsettledTs |-> w.ts, gauge |-> g]
          /\ IF w.outcome = "pending"
             THEN UNCHANGED <<pc, result, rec, call>>
             ELSE /\ pc' = "cycle_wait"
                  /\ call' = NoCall
                  /\ IF Continues(p)
                     THEN LET r1 == stepRecord(rec, SettlementStep, call.start, now)
                          IN IF recordFlowSuccessThrows(r1)
                             THEN rec' = recordFlowFailure(r1) /\ result' = FAIL
                             ELSE rec' = recordFlowSuccess(r1, now) /\ result' = OK
                     ELSE rec' = recordFlowFailure(rec) /\ result' = FAIL
  /\ UNCHANGED <<flow, cfg, cycle, i, now, abandoned, locked>>

\* the timer of withTimeout fires first: stepExecution throws, the catch
\* block records the failure, the work goes on unobserved
SettlementTimedOut ==
  /\ pc = "step"
  /\ call.timer
  /\ DateNow(now) - call.start >= StepTimeoutMs
  /\ call.promise = Pending
  /\ rec' = recordFlowFailure(rec)
  /\ result' = FAIL
  /\ pc' = "cycle_wait"
  /\ call' = NoCall
  /\ abandoned' = abandoned (+) SetToBag({[stage |-> stage, ts |-> chain.unsettledTs]})
  /\ stage' = 0
  /\ chain' = [chain EXCEPT !.unsettledTs = Null]
  /\ h' = [h EXCEPT !.cause = "timeout"]
  /\ UNCHANGED <<flow, cfg, cycle, i, now, locked>>

\* an await of a work whose timer has fired is answered: the work goes on,
\* writes the gauge where fn does, and its end changes nothing else
SettlementLateWork ==
  /\ \E v \in BagToSet(abandoned), a \in BlockAnswers :
       LET w == SettlementWork(v.stage, v.ts, a, cfg.deadline)
       IN /\ abandoned' = (abandoned (-) SetToBag({v}))
                            (+) (IF w.outcome = "pending"
                                 THEN SetToBag({[stage |-> w.stage, ts |-> w.ts]})
                                 ELSE EmptyBag)
          /\ chain' = [chain EXCEPT !.gauge = IF w.gauge.set THEN w.gauge ELSE @]
  /\ UNCHANGED <<flow, cfg, cycle, pc, i, stage, result, rec, now, call, locked, h>>

SettlementNext ==
  \/ SettlementTick
  \/ SettlementCycle
  \/ SettlementWorkResumes
  \/ SettlementTimedOut
  \/ SettlementLateWork

SettlementSpec == SettlementInit /\ [][SettlementNext]_vars

----------------------------------------------------------------------------
(* Properties *)

\* the value the README documents for watchdog_status: 1, 0.5 (skipped), 0
GaugeOf(st) == IF st = OK THEN "1" ELSE IF st = SKIP THEN "0.5" ELSE "0"

AllFail(seq) == \A k \in 1..Len(seq) : seq[k] = FAIL

\* C1: in the depositUser flow, when the first attempt of a cycle returns
\* SKIP the retry loop of that cycle is over at once and executeDepositTx has
\* been invoked exactly once in that cycle.
C1_SkipEndsRetryLoop ==
  (flow = "depositUser" /\ Len(h.results) >= 1 /\ h.results[1] = SKIP)
    => (Len(h.results) = 1 /\ pc = "cycle_wait")

\* C2: while every attempt of a cycle has returned FAIL the attempt function
\* has been invoked at most retryLimit times, and when the flow has left the
\* retry loop and waits for its next cycle it has been invoked exactly
\* retryLimit times; the loop never takes run() down.
C2_AlwaysFailRunsLimitTimes ==
  (h.entered /\ AllFail(h.results))
    => /\ Len(h.results) <= cfg.retryLimit
       /\ pc # "crashed"
       /\ (pc = "cycle_wait" => Len(h.results) = cfg.retryLimit)

C2_Witness ==
  /\ pc = "cycle_wait"
  /\ h.entered
  /\ cfg.retryLimit = MaxRetryLimit
  /\ Len(h.results) = MaxRetryLimit
  /\ AllFail(h.results)

\* C3: an OK outcome is the last outcome of its cycle: once an attempt has
\* returned OK no further attempt is started and the flow waits for its
\* next cycle.
C3_NoAttemptAfterOk ==
  \A k \in 1..Len(h.results) :
    h.results[k] = OK => (k = Len(h.results) /\ pc = "cycle_wait")

C3_Witness ==
  /\ pc = "cycle_wait"
  /\ cfg.retryLimit = MaxRetryLimit
  /\ h.results = <<FAIL, OK>>

\* C4: in the deposit and depositUser flows an attempt that has called the
\* submitting wallet method did so under an L1 fee estimate at or below the
\* configured ceiling.
C4_NoSubmissionAboveCeiling ==
  (flow \in {"deposit", "depositUser"} /\ h.issued) => h.fee <= GasPriceLimit

\* C5: after an attempt has returned, the status gauge holds the value of the
\* status it returned: 1 for OK, 0.5 for SKIP, 0 for FAIL.
C5_GaugeAgreesWithReturnedStatus ==
  result # "none" => rec.status = GaugeOf(result)

\* C6: the status gauge holds the value of the outcome handed to the latest
\* status-recording operation of the recorder, recordPreviousExecutionStatus
\* included.
C6_GaugeIsLastRecordedOutcome ==
  h.lastOutcome # "none" => rec.status = GaugeOf(h.lastOutcome)

\* C7: recordFlowStart() called while a run is open throws and leaves the
\* start time of the open run unchanged.
C7_SecondStartFails ==
  [][ (h'.calls # h.calls /\ h'.op = "recordFlowStart" /\ rec.startTime # Null)
        => (h'.threw /\ rec'.startTime = rec.startTime) ]_vars

\* C8: the promise of withTimeout holds the outcome of whichever event came
\* first: the work's result if the work resolved first, the work's error if
\* it rejected first, the timeout error naming the step if the timer fired
\* first; an event that comes second leaves it as it was.
C8_SettlesOnce ==
  /\ h.settled.first = "resolve" => h.settled.promise = Fulfilled
  /\ h.settled.first = "reject" => h.settled.promise = RejectedByWork
  /\ h.settled.first = "timer" => h.settled.promise = TimedOut(h.settled.step)

C8_Witness ==
  /\ h.settled.first = "timer"
  /\ h.settled.second = "resolve"
  /\ h.settled.promise = TimedOut(h.settled.step)

\* C9 as stated: every stepExecution that is over, however it ended, has
\* written exactly one step record.
C9_ExactlyOnceHoweverItEnds ==
  \A s \in StepNames : h.over[s] # "no" => h.writes[s] = 1

\* C9 amended: a stepExecution writes its step record exactly once if its
\* work fulfils before the deadline, and not at all if the work fails or the
\* step times out, even when the abandoned work completes later.
C9_RecordOnlyOnFulfil ==
  \A s \in StepNames :
    /\ h.over[s] = "fulfilled" => h.writes[s] = 1
    /\ h.over[s] \in {"no", "rejected", "timeout"} => h.writes[s] = 0

C9_Witness ==
  \E s \in StepNames, t \in StepNames :
    /\ h.over[s] = "fulfilled" /\ h.writes[s] = 1
    /\ h.over[t] = "timeout" /\ h.writes[t] = 0
    /\ h.settled.step = t /\ h.settled.second = "resolve"

\* C10: the completion of work abandoned by a timed-out step changes neither
\* the status gauge, nor any step latency or step timestamp, nor the total
\* latency, nor the status the attempt returned.
C10_LateCompletionIgnored ==
  [][ BagCardinality(abandoned') < BagCardinality(abandoned)
        => /\ rec'.status = rec.status
           /\ rec'.latency = rec.latency
           /\ rec'.stepTimestamp = rec.stepTimestamp
           /\ rec'.latencyTotal = rec.latencyTotal
           /\ result' = result
           /\ h'.results = h.results ]_vars

C10_Witness ==
  /\ h.settled.second # "none"
  /\ abandoned = EmptyBag
  /\ result = FAIL
  /\ rec.status = "0"
  /\ rec.stepGas[h.settled.step] # Null
  /\ rec.stepTimestamp[h.settled.step] = Null

\* whether the chain has a matching event in the block range of the query
EventsInRange(logs, fromBlock, toBlock) ==
  { k \in 1..Len(logs) : logs[k].blockNumber \in fromBlock..toBlock }

\* the ways the provider's answer to the wait for the L2 transaction counts
\* as not executed: never observed, an error, or a failed receipt
L2NotExecuted(l2) ==
  \/ l2.settled = "rejected"
  \/ l2.receipt = NoReceipt
  \/ l2.receipt.status # 1

\* C11: deposit reconciliation whose log query is answered while the chain
\* has no matching event in the queried block range returns Unknown (status
\* null, L1 timestamp 0): it does not throw and it never calls
\* waitForTransaction.
C11_NoEventGivesUnknown ==
  (flow = "deposit" /\ h.queried
     /\ EventsInRange(chain.logs, call.fromBlock, call.toBlock) = {})
  => /\ pc = "returned"
     /\ result = ExecutionResultUnknown
     /\ result.status = "null" /\ result.timestampL1 = 0
     /\ ~h.waited

\* events exist on the chain, all of them below the queried range
C11_Witness ==
  /\ flow = "deposit" /\ pc = "returned" /\ h.queried
  /\ Len(chain.logs) > 0
  /\ EventsInRange(chain.logs, call.fromBlock, call.toBlock) = {}
  /\ result = ExecutionResultUnknown

\* C12: when the selected L1 deposit event's L2 transaction is not observed
\* within the timeout, the wait for it raises an error, or its receipt has a
\* status other than success, deposit reconciliation returns (it does not
\* throw) a Known result with status FAIL that carries the L1 receipt and
\* the L1 timestamp and has no L2 receipt and no L2 timestamp.
C12_L2FailureGivesKnownFail ==
  (flow = "deposit" /\ h.l2.settled # "none" /\ L2NotExecuted(h.l2))
  => /\ pc = "returned"
     /\ result.status = FAIL
     /\ result.l1Receipt = EventReceipt(call.event)
     /\ result.timestampL1 = BlockTimestamp(call.event.blockNumber)
     /\ DOMAIN result \cap {"l2Receipt", "timestampL2"} = {}

\* the wait timed out
C12_Witness ==
  /\ flow = "deposit" /\ pc = "returned"
  /\ h.l2.settled = "rejected" /\ h.l2.error = "timeout"
  /\ result.status = FAIL

\* C13 (as stated): when the L2 transaction succeeded the result is OK and
\* secSinceL1Deposit is the L2 execution timestamp minus the L1 initiation
\* timestamp.
C13_ElapsedIsL2MinusL1 ==
  (flow = "deposit" /\ pc = "returned" /\ h.l2BlockTime # Null)
  => /\ result.status = OK
     /\ result.secSinceL1Deposit
          = h.l2BlockTime - BlockTimestamp(call.event.blockNumber)

\* C13 (amended): when the L2 transaction succeeded the result is OK, carries
\* the L1 initiation timestamp and the L2 execution timestamp, and
\* secSinceL1Deposit is the timestamp of the latest L1 block, read at the
\* start of the query, minus the L1 initiation timestamp.
C13_ElapsedIsSinceL1Deposit ==
  (flow = "deposit" /\ pc = "returned" /\ h.l2BlockTime # Null)
  => /\ result.status = OK
     /\ result.timestampL1 = BlockTimestamp(call.event.blockNumber)
     /\ result.timestampL2 = h.l2BlockTime
     /\ result.secSinceL1Deposit
          = BlockTimestamp(chain.head) - BlockTimestamp(call.event.blockNumber)

\* the L2 transaction succeeded one second after a deposit made two blocks ago
C13_Witness ==
  /\ flow = "deposit" /\ pc = "returned" /\ h.l2BlockTime # Null
  /\ result.status = OK
  /\ result.timestampL2 - result.timestampL1 = 1
  /\ result.secSinceL1Deposit = 2

\* C14: a Known result with status OK has the L1 receipt and the L2 receipt,
\* and the L2 receipt (the one the provider answered the wait with) has
\* status success; a Known result with status FAIL means the L2 transaction
\* was not observed (timeout, error, no receipt) or its receipt is a failure.
C14_KnownResultInvariant ==
  (flow = "deposit" /\ pc = "returned" /\ result.status \in StatusNoSkip)
  => /\ result.status = OK =>
          /\ result.l1Receipt # NoReceipt
          /\ "l2Receipt" \in DOMAIN result
          /\ result.l2Receipt # NoReceipt
          /\ result.l2Receipt.status = 1
          /\ h.l2.settled = "fulfilled" /\ h.l2.receipt = result.l2Receipt
     /\ result.status = FAIL => L2NotExecuted(h.l2)

\* the L2 receipt came back with a failure status
C14_Witness ==
  /\ flow = "deposit" /\ pc = "returned"
  /\ result.status = FAIL
  /\ h.l2.settled = "fulfilled" /\ h.l2.receipt # NoReceipt /\ h.l2.receipt.status = 0

\* C15: the event deposit and withdrawal reconciliation select is one of the
\* events the log query returned and none of those has a higher block
\* number; the receipt reported is that event's.
C15_LatestEventSelected ==
  (flow \in Reconciliations /\ h.queried /\ call.event # NoEvent)
  => /\ \E k \in 1..Len(h.window) : h.window[k] = call.event
     /\ \A k \in 1..Len(h.window) : h.window[k].blockNumber <= call.event.blockNumber
     /\ (pc = "returned" /\ flow = "deposit")
          => result.l1Receipt.hash = call.event.transactionHash
     /\ (pc = "returned" /\ flow = "withdrawal")
          => result.l2Receipt.hash = call.event.transactionHash

\* the provider listed an earlier block's event after a later block's
C15_Witness ==
  /\ flow \in Reconciliations /\ pc = "returned" /\ h.queried
  /\ Len(h.window) = 2
  /\ h.window[1].blockNumber < h.window[2].blockNumber
  /\ call.event = h.window[2]

\* C16: the log query of deposit and withdrawal reconciliation covers
\* [fromBlock, toBlock] with toBlock the block number read at the start of
\* the query, 0 <= fromBlock <= toBlock and toBlock - fromBlock no more
\* than the configured maximum range.
C16_QueryWindow ==
  (flow \in Reconciliations /\ h.queried)
  => /\ call.toBlock = h.headAtStart
     /\ call.fromBlock >= 0
     /\ call.fromBlock <= call.toBlock
     /\ call.toBlock - call.fromBlock <= cfg.maxLogsBlocks

\* the chain is shorter than the maximum range
C16_Witness ==
  /\ flow \in Reconciliations /\ h.queried
  /\ h.headAtStart < cfg.maxLogsBlocks
  /\ call.fromBlock = 0 /\ call.toBlock = h.headAtStart

\* the chain has no withdrawal event in the block range that ends at the
\* latest finalized block
NoFinalizedWithdrawal ==
  EventsInRange(chain.logs, Max(chain.finalized - cfg.maxLogsBlocks, 0), chain.finalized) = {}

\* the attempt is over: it returned, or it rejected out of its catch block
FinalizeAttemptOver == pc = "wf_wait" \/ (pc = "crashed" /\ h.escaped)

\* C17: a Withdrawal Finalize attempt whose reconciliation was answered with
\* no withdrawal event in the finalized-block window never fetches the
\* finalization parameters nor simulates on L1, and ends returning SKIP (not
\* FAIL) with the status gauge at 0.5.
C17_NoWithdrawalSkips ==
  (flow = "withdrawalFinalize" /\ h.reconciled /\ h.queried /\ NoFinalizedWithdrawal)
  => /\ h.proof = "none" /\ h.simulation = "none"
     /\ h.calls \cap {ParamsCall, SimulationCall} = {}
     /\ FinalizeAttemptOver => (result.status = SKIP /\ rec.status = "0.5")

\* the calls of the repository's flows that submit a transaction, and the
\* bridge's finalizeWithdrawal invoked as one
SubmittingCalls ==
  {"sendTransaction", "requestExecute", "deposit", "approveERC20", SimulationCallSubmits}

\* C18: every call a Withdrawal Finalize attempt makes, abandoned work of
\* its steps included, is a read or a gas estimate: the L1 finalization is
\* only estimated and no transaction is submitted, on any path.
C18_NeverSubmits ==
  flow = "withdrawalFinalize" =>
    /\ (h.calls \cup h.lateCalls) \cap SubmittingCalls = {}
    /\ h.calls \cup h.lateCalls \subseteq ReadOnlyCalls

\* the simulation ran and its gas was recorded
C18_Witness ==
  /\ flow = "withdrawalFinalize" /\ pc = "wf_wait"
  /\ result.status = OK
  /\ SimulationCall \in h.calls
  /\ rec.stepGas["l1_simulation"] # Null

\* how an attempt ended, read off its history
NoWithdrawalFound == h.reconciled /\ h.failed = "" /\ h.opened /\ ParamsCall \notin h.calls
ProofFetchFailed == h.proof \in {"rejected", "timeout"}
NotBaseToken == h.proof = "fulfilled" /\ h.sender = "other"
SimulationSucceeded == h.simulation = "fulfilled"

SimulationOnlyAfterProof ==
  SimulationCall \in h.calls
    => h.proof = "fulfilled" /\ h.sender = "L2_BASE_TOKEN_ADDRESS"

\* C19: every attempt ends in exactly one of NoWithdrawalFound -> SKIP,
\* ProofFetchFailed -> FAIL, NotBaseToken -> FAIL, SimulationSucceeded -> OK;
\* the simulation is reached only after a successful proof fetch of a
\* base-token withdrawal; the attempt never ends with its recorder run
\* still open.
C19_FourOutcomes ==
  flow = "withdrawalFinalize" =>
    /\ FinalizeAttemptOver =>
         /\ Cardinality({ k \in 1..4 :
              <<NoWithdrawalFound, ProofFetchFailed, NotBaseToken, SimulationSucceeded>>[k] }) = 1
         /\ NoWithdrawalFound => result.status = SKIP
         /\ ProofFetchFailed => result.status = FAIL
         /\ NotBaseToken => result.status = FAIL
         /\ SimulationSucceeded => result.status = OK
         /\ rec.startTime = Null
    /\ SimulationOnlyAfterProof

\* C20 (as stated): the withdrawal request carries zero value and paymaster
\* parameters when a paymaster is configured, and 1 wei and no paymaster
\* parameters when none is.
C20_ZeroValueWithPaymaster ==
  (flow = "withdrawal" /\ i > 0)
  => IF cfg.paymasterAddress # undefined
     THEN /\ result.amount = 0
          /\ "paymasterParams" \in DOMAIN result
     ELSE /\ result.amount = 1
          /\ "paymasterParams" \notin DOMAIN result

\* C20 (amended): the withdrawal request withdraws 1 wei of the L2 base
\* token to the wallet's own address whether or not a paymaster is
\* configured; it carries paymaster parameters naming the configured
\* paymaster when one is configured and none otherwise.
C20_OneWeiWithOrWithoutPaymaster ==
  (flow = "withdrawal" /\ i > 0)
  => /\ result.amount = 1
     /\ result.token = "L2_BASE_TOKEN_ADDRESS"
     /\ result.to = cfg.walletAddress
     /\ IF cfg.paymasterAddress # undefined
        THEN /\ "paymasterParams" \in DOMAIN result
             /\ result.paymasterParams.paymaster = cfg.paymasterAddress
        ELSE "paymasterParams" \notin DOMAIN result

\* a request built with a paymaster configured
C20_Witness ==
  /\ flow = "withdrawal" /\ i > 0
  /\ cfg.paymasterAddress \in PaymasterAddresses
  /\ result.amount = 1
  /\ "paymasterParams" \in DOMAIN result

\* C21: when the callers of one mutex use it through withLock only, no two
\* bodies are in progress together, and the bodies begin in the order in
\* which their callers called acquire().
C21_OneAtATimeFifo ==
  cfg.use = "withLock" =>
    /\ Cardinality({c \in Callers : pc[c] = "body"}) <= 1
    /\ \A k \in 1..Len(h.entered) : h.entered[k] = k

C21_Witness ==
  /\ cfg.use = "withLock"
  /\ h.deepest >= 2
  /\ h.entered = <<1, 2, 3>>
  /\ {2, 3} \subseteq h.waited

\* C22: withLock releases on every exit of its body, also when the body
\* throws: once a withLock call has settled the mutex is free or held by a
\* call made later, and a caller suspended in acquire() is eventually
\* granted the lock.
C22_ReleasedOnEveryExit ==
  /\ [](cfg.use = "withLock" =>
          \A c \in Callers :
            h.done[c] # 0 =>
              \/ ~locked
              \/ \E d \in Callers : pc[d] = "body" /\ h.ticket[d] > h.done[c])
  /\ \A c \in Callers : (cfg.use = "withLock" /\ pc[c] = "waiting") ~> (pc[c] = "body")

C22_Witness ==
  \E c \in Callers, d \in Callers :
    /\ cfg.use = "withLock"
    /\ result[c] = "threw"
    /\ pc[d] = "body"
    /\ h.ticket[d] \in h.waited
    /\ h.ticket[d] = h.done[c] + 1

\* C23: release() called on a mutex that is not locked throws, and leaves the
\* mutex unlocked with an empty wait queue.
C23_ReleaseUnlockedFails ==
  (h.op = "release" /\ ~h.before) => (h.threw /\ ~locked /\ call = <<>>)

C23_Witness ==
  /\ h.op = "release"
  /\ ~h.before
  /\ h.threw
  /\ Len(h.entered) >= 1
  /\ ~locked

\* flow f has read the account's nonce for a transaction that is not sent
\* yet: in its attempt, or in a send its attempt left behind
NonceReadNotSent(f) == pc[f] = "populated" \/ BagIn(f, abandoned)

\* C24: no two enabled flows that send from the same account are at the same
\* time between reading the account's nonce and having sent their
\* transaction.
C24_SharedAccountSerialized ==
  \A f \in cfg.enabled, g \in cfg.enabled :
    (f # g /\ Account(f) = Account(g)) => ~(NonceReadNotSent(f) /\ NonceReadNotSent(g))

\* C25: a chain query that rejects at any point of a flow's cycle is turned
\* into a status by the attempt; run() is never rejected by it, so the flow
\* goes on to its next cycle.
C25_RpcFailureNeverEscapes ==
  flow \in {"transfer", "deposit", "depositUser"} => pc # "crashed"

\* C26: when the program's own code raises an error inside an attempt (a
\* recorder operation finding no flow start recorded, unwrap() handed an
\* absent value), the error leaves the attempt and ends the flow's loop; it
\* is not turned into a FAIL status.
C26_LogicErrorEndsLoop ==
  (h.op \in {"recordFlowSuccess", "unwrap"} /\ h.threw)
    => (pc = "crashed" /\ result # FAIL)

\* C27: in a cycle of the depositUser flow whose most recent deposit from any
\* address executed OK and whose L1 timestamp is no older than the trigger
\* delay at the chain time the cycle read, no watchdog deposit is attempted
\* or submitted.
C27_RecentUserDepositNoManual ==
  h.some = "recentOK" => (~h.attempted /\ ~h.submitted /\ h.our = "unread")

C27_Witness ==
  /\ pc = "cycle_wait"
  /\ cycle = 2
  /\ cfg.retryLimit >= 1
  /\ cfg.triggerDelay >= 1
  /\ h.some = "recentOK"
  /\ chain.time > chain.cycleTs
  /\ ~h.submitted

\* C28 (as stated): a cycle of the depositUser flow in which no deposit was
\* detected, or the most recent detected deposit failed, ends (at its sleep,
\* or with run() rejecting) with a watchdog deposit attempt made.
C28_ManualDepositWhenNoneOrFailed ==
  (pc \in {"cycle_wait", "crashed"} /\ h.some \in {"none", "failed"}) => h.attempted

\* C28 (amended): in such a cycle an attempt is made exactly when the query
\* for the watchdog's own latest deposit was answered, the retry limit is at
\* least 1 and the chain time the cycle read is more than the trigger delay
\* after the later of the own latest deposit's L1 timestamp and the chain
\* time recorded when the latest attempt started; in every other case, the
\* rejection of that query (which ends run()) included, none is made.
C28_ManualDepositWhenDue ==
  h.some \in {"none", "failed"}
    => (h.attempted <=> (h.our = "due" /\ cfg.retryLimit >= 1))

C28_Witness ==
  /\ pc = "cycle_wait"
  /\ cycle = 2
  /\ cfg.retryLimit >= 1
  /\ h.some = "failed"
  /\ h.our = "notDue"
  /\ chain.lastOnChain >= 1
  /\ ~h.attempted

RECURSIVE FailsFrom(_, _)
FailsFrom(t, n) ==
  IF n = 0 \/ t > MaxL1Time THEN 0 ELSE h.fails[t] + FailsFrom(t + 1, n - 1)

\* C29: the attempts that return FAIL and were called within any span of
\* chain time as long as the trigger delay are no more than the retry limit:
\* after a cycle whose attempts all failed, no attempt is made until the
\* delay has elapsed.
C29_FailsPerDelayWithinLimit ==
  \A t \in 0..MaxL1Time : FailsFrom(t, cfg.triggerDelay + 1) <= cfg.retryLimit

\* C30: when the deposit of an attempt was mined and the reconciliation that
\* follows returns Unknown, the attempt returns FAIL, publishes status 0 and
\* run() goes on (nothing is thrown out of the attempt).
C30_NotFoundIsFail ==
  h.notFound => (result = FAIL /\ rec.status = "0" /\ pc # "crashed")

C30_Witness ==
  /\ h.notFound
  /\ h.submitted
  /\ result = FAIL
  /\ rec.status = "0"
  /\ pc = "retry_wait"

\* C31: in a cycle of the depositUser retry loop `attempt` counts the FAIL
\* outcomes of the cycle and nothing else, it never exceeds the retry limit,
\* and the retry delay is awaited only after a FAIL.
C31_SkipKeepsBudget ==
  /\ h.attempted => i = h.cycleFails
  /\ i <= cfg.retryLimit
  /\ pc = "retry_wait" => result = FAIL

C31_Witness ==
  /\ result = SKIP
  /\ pc = "du_tx"
  /\ i = 1
  /\ h.cycleFails = 1
  /\ cfg.retryLimit = 2

\* C32: the total latency is published on success only: recordFlowFailure,
\* recordFlowSkipped and manualRecordStatus with FAIL or SKIP leave the total
\* latency gauge and the recorder's last total latency as they were, while a
\* recordFlowSuccess that returns and manualRecordStatus with OK set both.
C32_TotalLatencyOnSuccessOnly ==
  [][h'.calls # h.calls =>
       LET sets == /\ ~h'.threw
                   /\ \/ h'.op = "recordFlowSuccess"
                      \/ h'.op = "manualRecordStatus" /\ h'.lastOutcome = OK
       IN IF sets
          THEN /\ rec'.latencyTotal # Null
               /\ rec'.lastExecutionTotalLatency = rec'.latencyTotal
               /\ h'.op = "recordFlowSuccess" =>
                    rec'.latencyTotal = (DateNow(now) - rec.startTime) \div SEC
          ELSE h'.op \in {"recordFlowFailure", "recordFlowSkipped",
                          "manualRecordStatus"} =>
                 /\ rec'.latencyTotal = rec.latencyTotal
                 /\ rec'.lastExecutionTotalLatency = rec.lastExecutionTotalLatency]_vars

C32_Witness ==
  /\ h.op \in {"recordFlowFailure", "manualRecordStatus"}
  /\ h.lastOutcome = FAIL
  /\ rec.status = "0"
  /\ rec.latencyTotal # Null
  /\ rec.lastExecutionTotalLatency = rec.latencyTotal

\* C33: the process exits with a non-zero status exactly when no flow is
\* enabled at start-up; with a flow enabled it does not exit, and every flow
\* counted as enabled keeps running its loop.
C33_ExitExactlyWhenNoFlows ==
  /\ result # Null => (result # 0 /\ cfg.enabled = {})
  /\ (stage = Returned /\ cfg.enabled = {}) => result # Null
  /\ stage = Returned => i = Cardinality(cfg.enabled)
  /\ \A f \in cfg.enabled : pc[f] # "rejected"

\* C34 (as stated): the first attempt of the deposit flow after process start
\* begins only when at least the flow interval has elapsed in L1 chain time
\* (the latest block's timestamp) since the wallet's most recent deposit
\* found in the L1 logs; when none is found (Unknown, timestamp 0) it begins
\* without waiting.
C34_FirstDepositAfterInterval ==
  pc = "attempt" =>
    IF h.found
    THEN (chain.time - h.last) * SEC >= cfg.intervalSec * SEC
    ELSE ~h.waited

\* C34 (amended): when a deposit was found, the L1 chain time from that
\* deposit to the latest block run() read at start-up, plus the time of the
\* process clock spent on the start-up timer, is at least the flow interval
\* when the first attempt begins; when none was found it begins without
\* waiting.
C34_FirstDepositAfterReadPlusTimer ==
  pc = "attempt" =>
    IF h.found
    THEN (h.readTs - h.last) * SEC
           + (IF h.waited THEN (h.startedAt - h.waitFrom) * SEC ELSE 0)
         >= cfg.intervalSec * SEC
    ELSE ~h.waited

\* the timer ran its second while L1 produced no block
C34_Witness ==
  /\ pc = "attempt"
  /\ h.found
  /\ h.waited
  /\ h.waitTime = SEC
  /\ h.startedAt - h.waitFrom = 1
  /\ chain.time = h.readTs
  /\ chain.time - h.last < cfg.intervalSec

\* positions of run() at which an attempt function has been called, has
\* recorded its start and has not returned yet
InOpenRun == {"step", "main_contract", "du_tx", "wf_params", "wf_bridges", "wf_sim"}

\* C35: recordFlowStart is never invoked while a run opened by an earlier
\* recordFlowStart is unsealed: wherever run() is suspended outside an attempt
\* function (between attempts, between cycles, at start-up) and wherever an
\* attempt function has not recorded its start yet, no run is open.
C35_OneOpenRunAtATime ==
  pc \notin InOpenRun => rec.startTime = Null

InAttempt(f) == pc[f] \in {"estimation", "populated", "execution"}

\* C36: a transfer attempt runs holding the L2 wallet mutex from its first
\* step to its return; between attempts (retry delay, sleep between cycles)
\* the transfer flow does not hold it; and, every step being under a timer,
\* the attempt returns and a Withdrawal flow waiting for the mutex is
\* eventually granted it.
C36_TransferHoldsLockOnlyInStep ==
  /\ [](InAttempt("transfer") => (locked /\ ~InAttempt("withdrawal")))
  /\ [](pc["transfer"] = "sleeping" => (locked => InAttempt("withdrawal")))
  /\ (pc["withdrawal"] = "waiting") ~> InAttempt("withdrawal")

C36_Witness ==
  /\ pc["transfer"] = "execution"
  /\ pc["withdrawal"] = "waiting"
  /\ locked
  /\ call = <<"withdrawal">>
  /\ h.attempts["transfer"] = 2

\* C37: recordFlowSuccess and recordFlowSkipped called with no run open fail
\* with an error and change no metric; recordFlowFailure called with no run
\* open returns and publishes status 0; and after any of the three has
\* returned normally the recorder has no open run.
C37_SealWithoutOpenRun ==
  [][h'.calls # h.calls =>
       /\ (h'.op \in {"recordFlowSuccess", "recordFlowSkipped"} /\ rec.startTime = Null)
            => (h'.threw /\ rec' = rec)
       /\ (h'.op = "recordFlowFailure" /\ rec.startTime = Null)
            => (~h'.threw /\ rec'.status = "0")
       /\ (h'.op \in {"recordFlowSuccess", "recordFlowSkipped", "recordFlowFailure"}
             /\ ~h'.threw)
            => rec'.startTime = Null]_vars

C37_Witness ==
  /\ h.op = "recordFlowSkipped"
  /\ h.threw
  /\ rec.startTime = Null
  /\ rec.status = "0"
  /\ h.lastOutcome = FAIL

\* C38: the completion of work abandoned by a timed-out step writes none of
\* that step's gas, gas-price and gas-cost gauges.
C38_AbandonedWorkWritesNoGas ==
  [][ BagCardinality(abandoned') < BagCardinality(abandoned)
        => /\ rec'.stepGas = rec.stepGas
           /\ rec'.stepGasPrice = rec.stepGasPrice
           /\ rec'.stepGasCost = rec.stepGasCost ]_vars

\* C39: the age of a deposit that reconciliation reports (secSinceL1Deposit)
\* is never negative, and neither is an age the depositUser cycle computes
\* from its own reading of the chain time.
C39_AgesNeverNegative ==
  /\ chain.sinceLastDeposit # Null => chain.sinceLastDeposit >= 0
  /\ ~h.negAge

\* what the cycle that just ended recorded, and what its work wrote
SettlementCycleEnds(failCauses) ==
  pc = "cycle_wait" =>
    /\ result \in {OK, FAIL}
    /\ rec.status = GaugeOf(result)
    /\ result = FAIL <=> \/ h.cause \in failCauses
                         \/ h.aged /\ h.age > cfg.deadline
    /\ h.unsettled = "none" => h.wrote = SetGauge(0)
    /\ h.aged => h.wrote = SetGauge(h.age)

\* C40 (as stated): a settlement cycle ends FAIL exactly when an RPC call
\* fails or the step times out, the finalized block is missing, or the age
\* of the first unsettled block exceeds the deadline, otherwise OK; the gauge
\* is set to 0 when there is no unsettled block and to the age otherwise,
\* also when the cycle fails on the deadline.
C40_SettlementFailCauses ==
  SettlementCycleEnds({"rpc", "timeout", "noFinalized"})

\* C40 (amended): ... exactly when an RPC call fails or the step times out,
\* the finalized block or the latest L1 block is missing, or the age of the
\* first unsettled block exceeds the deadline, otherwise OK; the gauge as
\* stated.
C40_SettlementFailCausesWithL1 ==
  SettlementCycleEnds({"rpc", "timeout", "noFinalized", "noL1"})

\* a cycle failed on the deadline with the age published
C40_Witness ==
  /\ pc = "cycle_wait"
  /\ result = FAIL
  /\ h.cause = "deadline"
  /\ h.age = cfg.deadline + 1
  /\ chain.gauge = SetGauge(h.age)
  /\ rec.status = "0"

====
